---- MODULE Spec2Model ----
(***************************************************************************)
(* Model of src/s3presigurls.py: YandexS3PresignedURLManager, the manager  *)
(* of presigned POST / GET requests for Yandex Cloud Object Storage.       *)
(*                                                                         *)
(* Representation.                                                         *)
(*  - A Python str that the code only passes along (bucket, key, MIME      *)
(*    type, acl) is a TLA+ string.  None is the string NoneValue and an    *)
(*    argument the caller leaves out is the string Omitted; the declared   *)
(*    default of the parameter is then applied (Default).  An int         *)
(*    argument is <<n>>, or << >> when the caller leaves it out.           *)
(*  - A Python str that the code builds or takes apart (messages, URLs,    *)
(*    paths, response bodies, headers) is a sequence of string tokens.     *)
(*    str(int) is FormatInt: the decimal digits, one token per digit.      *)
(*    The Russian literals of the source are transliterated to ASCII.      *)
(*    An Optional[str] of this kind is << >> both for None and for "":     *)
(*    the code only tests its truthiness.                                  *)
(*  - A dict whose order matters is a sequence of <<name, value>> pairs.   *)
(*  - An Optional[Dict] is a sequence of length 0 (None) or 1.             *)
(*                                                                         *)
(* The manager is used in two ways.  As a library (main.pc = "lib") its    *)
(* methods are called one after the other, each call followed by Return.   *)
(* As a command (main.pc = "start") main() runs once, step by step, and    *)
(* main.calls logs its calls to boto3 and to requests in their order.      *)
(* The object store is outside the program: store holds what it was sent   *)
(* by a POST it answered 2xx, and it serves these bytes to a GET.          *)
(***************************************************************************)
EXTENDS Integers, Sequences, FiniteSets, TLC

VARIABLES
    fs,       \* local storage: absolute path -> node (file or directory)
    op,       \* the method of the manager that ran last
    args,     \* the arguments of that call
    signer,   \* the calls it made to the boto3 client (the signer)
    http,     \* the calls it made to requests (the transport)
    raised,   \* the exception that escaped the call ("" when it returned)
    ret,      \* the value it returned
    downloads,\* how many downloads have run
    store,    \* the objects uploaded to the store: <<bucket, key>> -> bytes
    handles,  \* the local files the process holds open
    main      \* the run of main(): where it is and what it has done so far

vars ==
    <<fs, op, args, signer, http, raised, ret, downloads, store, handles, main>>

-----------------------------------------------------------------------------
(* Bounds of the model *)

\* --max-size values 1 .. MaxSizeMb are explored (besides 0 and -1)
MaxSizeMb == 5

\* a run of the model is followed up to its MaxDownloads-th download
MaxDownloads == 1

-----------------------------------------------------------------------------
(* Python values *)

NoneValue == "<None>"
Omitted == "<omitted>"

\* a parameter's declared default applies when the caller leaves it out
Default(arg, dflt) == IF arg = Omitted THEN dflt ELSE arg

\* the same for an int parameter, given as << >> (left out) or <<n>>
DefaultInt(arg, dflt) == IF arg = << >> THEN dflt ELSE arg[1]

\* truthiness of an Optional[str]: None and "" are falsy
Truthy(s) == s # NoneValue /\ s # ""

DefaultExpiration == 3600
DefaultMaxSizeMb == 10
DefaultAcl == "private"

\* dict operations on a sequence of <<name, value>> pairs
DictHas(d, k) == \E i \in DOMAIN d : d[i][1] = k

DictGet(d, k) == d[CHOOSE i \in DOMAIN d : d[i][1] = k][2]

DictSet(d, k, v) ==
    IF DictHas(d, k)
    THEN [i \in DOMAIN d |-> IF d[i][1] = k THEN <<k, v>> ELSE d[i]]
    ELSE Append(d, <<k, v>>)

DictKeys(d) == {d[i][1] : i \in DOMAIN d}

\* str(n) for an int: the decimal digits, most significant first
Digit(d) == CASE d = 0 -> "0" [] d = 1 -> "1" [] d = 2 -> "2" [] d = 3 -> "3"
              [] d = 4 -> "4" [] d = 5 -> "5" [] d = 6 -> "6" [] d = 7 -> "7"
              [] d = 8 -> "8" [] d = 9 -> "9"

RECURSIVE FormatNat(_)
FormatNat(n) == IF n < 10 THEN <<Digit(n)>>
                ELSE Append(FormatNat(n \div 10), Digit(n % 10))

FormatInt(n) == IF n < 0 THEN <<"-">> \o FormatNat(0 - n) ELSE FormatNat(n)

\* `needle in haystack` for two token sequences
Contains(haystack, needle) ==
    \E i \in 0..(Len(haystack) - Len(needle)) :
        \A j \in 1..Len(needle) : haystack[i + j] = needle[j]

-----------------------------------------------------------------------------
(* create_presigned_post_url *)

\* ["content-length-range", lo, hi]
RangeCondition(lo, hi) ==
    [form |-> "list", name |-> "content-length-range", lo |-> lo, hi |-> hi,
     value |-> ""]

\* {name: value}
ExactCondition(name, value) ==
    [form |-> "dict", name |-> name, lo |-> 0, hi |-> 0, value |-> value]

\* BuildConditions with 1 MB taken as 1000 * 1000 bytes
BuildConditions_DecimalMb(bucket_name, object_name, max_size_mb, content_type, acl) ==
    LET base == << RangeCondition(1, max_size_mb * 1000 * 1000),
                   ExactCondition("key", object_name),
                   ExactCondition("bucket", bucket_name) >>
        withAcl == IF Truthy(acl)
                   THEN Append(base, ExactCondition("acl", acl))
                   ELSE base
    IN  IF Truthy(content_type)
        THEN Append(withAcl, ExactCondition("Content-Type", content_type))
        ELSE withAcl

\* BuildConditions with the Content-Type condition appended before the acl
BuildConditions_ContentTypeFirst(bucket_name, object_name, max_size_mb, content_type, acl) ==
    LET base == << RangeCondition(1, max_size_mb * 1024 * 1024),
                   ExactCondition("key", object_name),
                   ExactCondition("bucket", bucket_name) >>
        withType == IF Truthy(content_type)
                    THEN Append(base,
                                ExactCondition("Content-Type", content_type))
                    ELSE base
    IN  IF Truthy(acl)
        THEN Append(withType, ExactCondition("acl", acl))
        ELSE withType

\* BuildConditions without the acl condition
BuildConditions_NoAcl(bucket_name, object_name, max_size_mb, content_type, acl) ==
    LET base == << RangeCondition(1, max_size_mb * 1024 * 1024),
                   ExactCondition("key", object_name),
                   ExactCondition("bucket", bucket_name) >>
    IN  IF Truthy(content_type)
        THEN Append(base, ExactCondition("Content-Type", content_type))
        ELSE base

\* the conditions and fields built from the arguments
BuildConditions(bucket_name, object_name, max_size_mb, content_type, acl) ==
    LET base == << RangeCondition(1, max_size_mb * 1024 * 1024),
                   ExactCondition("key", object_name),
                   ExactCondition("bucket", bucket_name) >>
        withAcl == IF Truthy(acl)
                   THEN Append(base, ExactCondition("acl", acl))
                   ELSE base
    IN  IF Truthy(content_type)
        THEN Append(withAcl, ExactCondition("Content-Type", content_type))
        ELSE withAcl

\* BuildFields that leaves the acl out of the fields
BuildFields_NoAcl(bucket_name, object_name, content_type, acl) ==
    LET base == << <<"key", object_name>>, <<"bucket", bucket_name>> >>
    IN  IF Truthy(content_type)
        THEN DictSet(base, "Content-Type", content_type)
        ELSE base

\* BuildFields that asks for a status code after the upload, as clients of
\* other S3 providers do
BuildFields_WithStatus(bucket_name, object_name, content_type, acl) ==
    LET base == << <<"key", object_name>>, <<"bucket", bucket_name>>,
                   <<"success_action_status", "201">> >>
        withAcl == IF Truthy(acl) THEN DictSet(base, "acl", acl) ELSE base
    IN  IF Truthy(content_type)
        THEN DictSet(withAcl, "Content-Type", content_type)
        ELSE withAcl

\* BuildFields that leaves the Content-Type out of the fields
BuildFields_NoContentType(bucket_name, object_name, content_type, acl) ==
    LET base == << <<"key", object_name>>, <<"bucket", bucket_name>> >>
    IN  IF Truthy(acl) THEN DictSet(base, "acl", acl) ELSE base

BuildFields(bucket_name, object_name, content_type, acl) ==
    LET base == << <<"key", object_name>>, <<"bucket", bucket_name>> >>
        withAcl == IF Truthy(acl) THEN DictSet(base, "acl", acl) ELSE base
    IN  IF Truthy(content_type)
        THEN DictSet(withAcl, "Content-Type", content_type)
        ELSE withAcl

\* what the provider SDK answers to generate_presigned_post: the URL of the
\* bucket and the fields it was given with the signature metadata appended
EndpointUrl == <<"https:", "/", "/", "storage.yandexcloud.net", "/">>

GeneratePresignedPost(Bucket, Key, Fields, Conditions, ExpiresIn) ==
    [url |-> Append(EndpointUrl, Bucket),
     fields |-> DictSet(DictSet(DictSet(DictSet(Fields, "key", Key),
                    "x-amz-algorithm", "AWS4-HMAC-SHA256"),
                    "policy", "base64-policy"),
                    "x-amz-signature", "signature")]

\* what the signer does when called
SignerEvents == {"ok", "ClientError", "NoCredentialsError", "KeyboardInterrupt"}

\* the exceptions `except Exception` catches: every class but the
\* BaseException-only ones
IsException(e) == e \notin {"", "ok", "KeyboardInterrupt", "SystemExit"}

create_presigned_post_url(bucket_name, object_name, expiration_arg, max_size_mb_arg, content_type_arg, acl_arg, event) ==
    LET expiration == DefaultInt(expiration_arg, DefaultExpiration)
        max_size_mb == DefaultInt(max_size_mb_arg, DefaultMaxSizeMb)
        content_type == Default(content_type_arg, NoneValue)
        acl == Default(acl_arg, DefaultAcl)
        conditions == BuildConditions(bucket_name, object_name, max_size_mb,
                                      content_type, acl)
        fields == BuildFields(bucket_name, object_name, content_type, acl)
        call == [method |-> "generate_presigned_post", Bucket |-> bucket_name,
                 Key |-> object_name, Fields |-> fields,
                 Conditions |-> conditions, ExpiresIn |-> expiration]
        response == GeneratePresignedPost(bucket_name, object_name, fields,
                                          conditions, expiration)
    IN  [signer |-> <<call>>,
         raised |-> IF event = "ok" \/ IsException(event) THEN "" ELSE event,
         ret |-> IF event = "ok"
                 THEN << [url |-> response.url, fields |-> response.fields,
                          bucket |-> bucket_name, object |-> object_name] >>
                 ELSE << >>]

\* the characters of an object key, "/" and the extension apart
PathTokens(s) ==
    CASE s = "uploads/test.txt" -> <<"uploads", "/", "test", ".txt">>
      [] s = "dir/" -> <<"dir", "/">>
      [] s = "" -> << >>
      [] OTHER -> <<s>>

\* what the provider SDK answers to generate_presigned_url('get_object'):
\* the URL of the object with the signature in its query
GeneratePresignedUrl(Bucket, Key, ExpiresIn) ==
    EndpointUrl \o <<Bucket, "/">> \o PathTokens(Key)
    \o <<"?", "X-Amz-Expires=">> \o FormatInt(ExpiresIn)
    \o <<"&X-Amz-Signature=signature">>

\* ret is <<url>>, or << >> for None and when the call raises
create_presigned_get_url(bucket_name, object_name, expiration_arg, event) ==
    LET expiration == DefaultInt(expiration_arg, DefaultExpiration)
        call == [method |-> "generate_presigned_url", Bucket |-> bucket_name,
                 Key |-> object_name, ExpiresIn |-> expiration]
    IN  [signer |-> <<call>>,
         raised |-> IF event \in {"ok", "ClientError"} THEN "" ELSE event,
         ret |-> IF event = "ok"
                 THEN <<GeneratePresignedUrl(bucket_name, object_name,
                                             expiration)>>
                 ELSE << >>]

-----------------------------------------------------------------------------
(* Local storage *)

\* "a/b".split("/"): the pieces of s between the occurrences of sep
RECURSIVE Split(_, _)
Split(s, sep) ==
    IF \A i \in DOMAIN s : s[i] # sep
    THEN <<s>>
    ELSE LET i == CHOOSE k \in DOMAIN s :
                      s[k] = sep /\ \A j \in 1..(k - 1) : s[j] # sep
         IN  <<SubSeq(s, 1, i - 1)>> \o Split(SubSeq(s, i + 1, Len(s)), sep)

Last(s) == s[Len(s)]
Front(s) == SubSeq(s, 1, Len(s) - 1)

\* the working directory of the process, as a list of path components
Cwd == << <<"work">> >>

\* os.path.normpath on a list of components: "" and "." are dropped and
\* ".." removes the component before it
RECURSIVE NormComponents(_, _)
NormComponents(todo, done) ==
    IF todo = << >> THEN done
    ELSE LET c == Head(todo)
         IN  IF c = << >> \/ c = <<".">>
             THEN NormComponents(Tail(todo), done)
             ELSE IF c = <<"..">>
             THEN NormComponents(Tail(todo),
                                 IF done = << >> THEN done ELSE Front(done))
             ELSE NormComponents(Tail(todo), Append(done, c))

\* os.path.abspath(path): the list of components from the root
abspath(path) ==
    LET parts == Split(path, "/")
    IN  IF path # << >> /\ path[1] = "/"
        THEN NormComponents(parts, << >>)
        ELSE NormComponents(parts, Cwd)

\* os.path.dirname of an absolute list of components
dirname(abs) == IF abs = << >> THEN abs ELSE Front(abs)

\* os.path.basename(path): what follows the last "/"
basename(path) == Last(Split(path, "/"))

FileNode(data, perm) == [kind |-> "file", data |-> data, perm |-> perm]
DirNode(perm) == [kind |-> "dir", data |-> << >>, perm |-> perm]

\* an existence check that always passes
exists_Always(files, path) == TRUE

\* os.path.exists(path)
exists(files, path) == abspath(path) \in DOMAIN files

\* open(path, "rb"): the exception it raises, "" when the file opens
OpenRead(files, path) ==
    IF abspath(path) \notin DOMAIN files THEN "FileNotFoundError"
    ELSE IF files[abspath(path)].kind = "dir" THEN "IsADirectoryError"
    ELSE IF ~files[abspath(path)].perm THEN "PermissionError"
    ELSE ""

\* os.makedirs(abs, exist_ok=True): the exception raised, "" when it succeeds
MakedirsError(files, abs) ==
    IF \E i \in 1..Len(abs) :
           /\ SubSeq(abs, 1, i) \in DOMAIN files
           /\ files[SubSeq(abs, 1, i)].kind = "file"
    THEN IF abs \in DOMAIN files THEN "FileExistsError" ELSE "NotADirectoryError"
    ELSE IF \E i \in 1..Len(abs) :
                /\ SubSeq(abs, 1, i) \notin DOMAIN files
                /\ SubSeq(abs, 1, i - 1) \in DOMAIN files
                /\ ~files[SubSeq(abs, 1, i - 1)].perm
    THEN "PermissionError"
    ELSE ""

\* the storage after a successful os.makedirs(abs, exist_ok=True)
Makedirs(files, abs) ==
    LET missing == {SubSeq(abs, 1, i) : i \in 1..Len(abs)} \ DOMAIN files
    IN  [q \in DOMAIN files \cup missing |->
            IF q \in DOMAIN files THEN files[q] ELSE DirNode(TRUE)]

\* open(path, "wb"): the exception raised, "" when the file opens
OpenWriteError(files, path) ==
    LET abs == abspath(path)
    IN  IF abs \in DOMAIN files
        THEN IF files[abs].kind = "dir" THEN "IsADirectoryError"
             ELSE IF ~files[abs].perm THEN "PermissionError"
             ELSE ""
        ELSE IF dirname(abs) \notin DOMAIN files THEN "FileNotFoundError"
        ELSE IF files[dirname(abs)].kind # "dir" THEN "NotADirectoryError"
        ELSE IF ~files[dirname(abs)].perm THEN "PermissionError"
        ELSE ""

\* the storage once `path` holds `data`: open(path, "wb") creates the file
\* or truncates it, and the writes up to the close of the handle follow
WriteFile(files, path, data) ==
    LET abs == abspath(path)
    IN  [q \in DOMAIN files \cup {abs} |->
            IF q = abs THEN FileNode(data, TRUE) ELSE files[q]]

\* an open() whose handle is closed on the normal path only
WithExit_LeaksOnException(path, exc) ==
    IF exc = "" THEN {} ELSE {path}

\* with open(path) as file: the handles the statement leaves open when its
\* block ends, normally (exc = "") or by the exception exc.  The file is
\* closed on every way out of the block
WithExit(path, exc) == {}

-----------------------------------------------------------------------------
(* The object store *)

\* the bytes of a response body, chunk after chunk
RECURSIVE Body(_)
Body(chunks) ==
    IF chunks = << >> THEN << >> ELSE chunks[1] \o Body(Tail(chunks))

NoObjects == << >>

\* the store after it answered a POST: a 2xx answer means that the posted
\* file is now the object of the bucket of the URL and the key of the form
StoreAfterPost(objects, post, event) ==
    IF event.exc = "" /\ event.status_code \div 100 = 2
    THEN (<<Last(post.url), PathTokens(DictGet(post.data, "key"))>>
             :> post.files[1][2].content) @@ objects
    ELSE objects

\* the object a GET URL of the store is signed for, as <<bucket, key>>;
\* << >> for a URL of another host
ObjectOf(url) ==
    LET path == Split(url, "?")[1]
        n == Len(EndpointUrl)
    IN  IF Len(path) >= n + 2 /\ SubSeq(path, 1, n) = EndpointUrl
           /\ path[n + 2] = "/"
        THEN <<path[n + 1], SubSeq(path, n + 3, Len(path))>>
        ELSE << >>

\* the store answers 200 for an object it holds with the bytes it holds
StoreAnswers(objects, url, event) ==
    event.exc = "" /\ event.status_code = 200
    /\ ObjectOf(url) \in DOMAIN objects
    => Body(event.chunks) = objects[ObjectOf(url)]

-----------------------------------------------------------------------------
(* upload_file_via_presigned_post *)

\* mimetypes.guess_type(file_path)[0]: by the extension of the name, the
\* last token of the path when it is a known suffix; NoneValue otherwise
TypesMap == [s \in {".txt", ".jpg"} |->
                IF s = ".txt" THEN "text/plain" ELSE "image/jpeg"]

guess_type(file_path) ==
    LET name == basename(file_path)
    IN  IF Len(name) > 1 /\ Last(name) \in DOMAIN TypesMap
        THEN TypesMap[Last(name)]
        ELSE NoneValue

\* a resolution that prefers the type of the extension to the caller's
FinalContentType_InfersFirst(content_type, file_path) ==
    IF Truthy(guess_type(file_path)) THEN guess_type(file_path)
    ELSE IF Truthy(content_type) THEN content_type
    ELSE "application/octet-stream"

\* the Content-Type sent with the file part
FinalContentType(content_type, file_path) ==
    IF Truthy(content_type) THEN content_type
    ELSE IF Truthy(guess_type(file_path)) THEN guess_type(file_path)
    ELSE "application/octet-stream"

\* xml.etree.ElementTree.fromstring on a token sequence.  A document is
\* an optional declaration <?xml ... ?> and one root element whose
\* children are elements holding at most one text token:
\*     "<" tag ">" [text] "</" tag ">"
Markup == {"<", ">", "</", "<?xml", "?>"}

RECURSIVE ParseChildren(_, _)
ParseChildren(s, acc) ==
    IF s = << >> THEN [ok |-> TRUE, elems |-> acc]
    ELSE IF /\ Len(s) >= 7 /\ s[1] = "<" /\ s[2] \notin Markup /\ s[3] = ">"
            /\ s[4] \notin Markup
            /\ s[5] = "</" /\ s[6] = s[2] /\ s[7] = ">"
    THEN ParseChildren(SubSeq(s, 8, Len(s)),
                       Append(acc, [tag |-> s[2], text |-> s[4]]))
    ELSE IF /\ Len(s) >= 6 /\ s[1] = "<" /\ s[2] \notin Markup /\ s[3] = ">"
            /\ s[4] = "</" /\ s[5] = s[2] /\ s[6] = ">"
    THEN ParseChildren(SubSeq(s, 7, Len(s)),
                       Append(acc, [tag |-> s[2], text |-> "None"]))
    ELSE [ok |-> FALSE, elems |-> << >>]

StripDeclaration(s) ==
    IF s # << >> /\ s[1] = "<?xml" /\ \E i \in DOMAIN s : s[i] = "?>"
    THEN LET i == CHOOSE k \in DOMAIN s :
                      s[k] = "?>" /\ \A j \in 1..(k - 1) : s[j] # "?>"
         IN  SubSeq(s, i + 1, Len(s))
    ELSE s

fromstring(text) ==
    LET s == StripDeclaration(text)
        n == Len(s)
    IN  IF /\ n >= 6 /\ s[1] = "<" /\ s[2] \notin Markup /\ s[3] = ">"
           /\ s[n - 2] = "</" /\ s[n - 1] = s[2] /\ s[n] = ">"
        THEN ParseChildren(SubSeq(s, 4, n - 3), << >>)
        ELSE [ok |-> FALSE, elems |-> << >>]

\* root.find(tag): the first child with that tag, as << >> or <<element>>
find(root, tag) ==
    IF \E i \in DOMAIN root.elems : root.elems[i].tag = tag
    THEN << root.elems[CHOOSE i \in DOMAIN root.elems :
                           /\ root.elems[i].tag = tag
                           /\ \A j \in 1..(i - 1) : root.elems[j].tag # tag] >>
    ELSE << >>

\* the two lines appended to the error message for an XML error document.
\* parse_exc is what is raised while the try block of the parse runs, ""
\* for nothing: its bare except clause passes over whatever it is, a
\* KeyboardInterrupt included
XmlErrorLines(text, parse_exc) ==
    IF ~Contains(text, <<"<?xml">>) THEN << >>
    ELSE IF parse_exc # "" THEN << >>
    ELSE LET root == fromstring(text)
         IN  IF ~root.ok THEN << >>
             ELSE LET code == find(root, "Code")
                      message == find(root, "Message")
                  IN  IF code # << >> /\ message # << >>
                      THEN <<"\nKod oshibki: ", code[1].text,
                             "\nSoobshchenie: ", message[1].text>>
                      ELSE << >>

ResponsePreviewLen == 200
RequestTimeout == 30

\* ClassifyUploadResponse that reports the parsed error lines without the
\* raw body
ClassifyUploadResponse_NoBody(status_code, text, parse_exc) ==
    IF status_code \in {200, 201, 204}
    THEN <<TRUE, <<"Fajl uspeshno zagruzhen. Status: ">> \o FormatInt(status_code)>>
    ELSE <<FALSE, <<"Oshibka zagruzki. Status: ">> \o FormatInt(status_code)
                  \o XmlErrorLines(text, parse_exc)>>

UploadSuccessStatuses == {200, 201, 204}

\* the (success, message) pair for a response of the POST
ClassifyUploadResponse(status_code, text, parse_exc) ==
    IF status_code \in UploadSuccessStatuses
    THEN <<TRUE, <<"Fajl uspeshno zagruzhen. Status: ">> \o FormatInt(status_code)
                 \o (IF text # << >>
                     THEN <<"\nOtvet servera: ">>
                          \o SubSeq(text, 1, IF Len(text) < ResponsePreviewLen
                                             THEN Len(text)
                                             ELSE ResponsePreviewLen)
                     ELSE << >>)>>
    ELSE <<FALSE, <<"Oshibka zagruzki. Status: ">> \o FormatInt(status_code)
                  \o (IF text # << >>
                      THEN <<"\nOtvet servera: ">> \o text
                           \o XmlErrorLines(text, parse_exc)
                      ELSE << >>)>>

UploadTimeoutMsg == <<"Tajmaut pri zagruzke fajla">>

\* str(e) of the exceptions the model raises
ExcText(e) == <<e>>

\* UploadHandler without the clause for requests.exceptions.Timeout
UploadHandler_NoTimeoutClause(e) ==
    IF IsException(e)
    THEN [raised |-> "",
          ret |-> <<FALSE, <<"Oshibka pri zagruzke fajla: ">> \o ExcText(e)>>]
    ELSE [raised |-> e, ret |-> << >>]

\* the except clauses of upload_file_via_presigned_post: what the call
\* does with exception e raised inside its try block
UploadHandler(e) ==
    IF e = "Timeout" THEN [raised |-> "", ret |-> <<FALSE, UploadTimeoutMsg>>]
    ELSE IF IsException(e)
    THEN [raised |-> "",
          ret |-> <<FALSE, <<"Oshibka pri zagruzke fajla: ">> \o ExcText(e)>>]
    ELSE [raised |-> e, ret |-> << >>]

\* a preparation that refuses a file of more than two bytes
UploadPreparation_ChecksSize(files, presigned_data, file_path) ==
    IF "fields" \notin DOMAIN presigned_data THEN "KeyError"
    ELSE IF OpenRead(files, file_path) # "" THEN OpenRead(files, file_path)
    ELSE IF Len(files[abspath(file_path)].data) > Len(<<"k", "b">>)
    THEN "ValueError"
    ELSE IF "url" \notin DOMAIN presigned_data THEN "KeyError"
    ELSE ""

\* the exception the file check and the preparation of the form raise before
\* the POST, "" when the POST is reached
UploadPreparation(files, presigned_data, file_path) ==
    IF "fields" \notin DOMAIN presigned_data THEN "KeyError"
    ELSE IF OpenRead(files, file_path) # "" THEN OpenRead(files, file_path)
    ELSE IF "url" \notin DOMAIN presigned_data THEN "KeyError"
    ELSE ""

\* a file object that was read to its end before it is posted
ReadBytes_Consumed(files, path) == << >>

\* what requests reads from the file object of open(file_path, 'rb')
ReadBytes(files, path) == files[abspath(path)].data

\* an upload that posts a second time when the first POST timed out
PostCalls_RetryOnTimeout(post, event) ==
    IF event.exc = "Timeout" THEN <<post, post>> ELSE <<post>>

\* the calls of requests.post that the upload makes: one, however it ends
PostCalls(post, event) == <<post>>

\* a form that asks the store for a status of its own
FormData_AddsStatus(presigned_data) ==
    Append(presigned_data.fields, <<"success_action_status", "201">>)

\* form_data: a copy of the fields of the signed request
FormData(presigned_data) == presigned_data.fields

\* event: what requests.post does, an exception name or a response.
\* presigned_data in the answer is the mapping of the caller after the call:
\* the method reads it and changes its own copy of the fields only
upload_file_via_presigned_post(files, presigned_data, file_path, content_type_arg, event) ==
    LET content_type == Default(content_type_arg, NoneValue)
        prep == UploadPreparation(files, presigned_data, file_path)
        post == [method |-> "POST", url |-> presigned_data.url,
                 data |-> FormData(presigned_data),
                 files |-> << <<"file",
                     [name |-> basename(file_path),
                      content |-> ReadBytes(files, file_path),
                      content_type |-> FinalContentType(content_type,
                                                        file_path)]>> >>,
                 timeout |-> RequestTimeout]
        opened == /\ exists(files, file_path)
                  /\ "fields" \in DOMAIN presigned_data
                  /\ OpenRead(files, file_path) = ""
        closed == [handles |-> IF opened
                               THEN WithExit(abspath(file_path),
                                             IF prep # "" THEN prep
                                             ELSE event.exc)
                               ELSE {},
                   presigned_data |-> presigned_data]
    IN  IF ~exists(files, file_path)
        THEN [http |-> << >>, raised |-> "", handles |-> {},
              presigned_data |-> presigned_data,
              ret |-> <<FALSE, <<"Fajl ne najden: ">> \o file_path>>]
        ELSE IF prep # ""
        THEN [http |-> << >>] @@ closed @@ UploadHandler(prep)
        ELSE IF event.exc # ""
        THEN [http |-> PostCalls(post, event)] @@ closed
             @@ UploadHandler(event.exc)
        ELSE [http |-> PostCalls(post, event), raised |-> "",
              ret |-> ClassifyUploadResponse(event.status_code, event.text,
                                             event.parse_exc)] @@ closed

-----------------------------------------------------------------------------
(* download_file_via_presigned_url *)

Quote == "\""

\* re.search(r'filename="([^"]+)"', content_disp): << >> when nothing
\* matches, else <<group 1>> of the leftmost match
FilenameMatchAt(s, i) ==
    /\ s[i] = "filename="
    /\ i + 3 <= Len(s)
    /\ s[i + 1] = Quote
    /\ s[i + 2] # Quote
    /\ \E j \in (i + 3)..Len(s) : s[j] = Quote

SearchFilename(s) ==
    IF \E i \in DOMAIN s : FilenameMatchAt(s, i)
    THEN LET i == CHOOSE k \in DOMAIN s :
                      /\ FilenameMatchAt(s, k)
                      /\ \A m \in 1..(k - 1) : ~FilenameMatchAt(s, m)
             j == CHOOSE k \in (i + 3)..Len(s) :
                      /\ s[k] = Quote
                      /\ \A m \in (i + 3)..(k - 1) : s[m] # Quote
         IN  << SubSeq(s, i + 2, j - 1) >>
    ELSE << >>

FallbackName == <<"downloaded_file">>

\* ResolveFilename that looks at the URL before the header
ResolveFilename_UrlFirst(presigned_url, headers) ==
    LET content_disp == IF DictHas(headers, "Content-Disposition")
                        THEN DictGet(headers, "Content-Disposition")
                        ELSE << >>
        fromHeader == IF Contains(content_disp, <<"filename=">>)
                      THEN SearchFilename(content_disp)
                      ELSE << >>
        fromUrl == Last(Split(Split(presigned_url, "?")[1], "/"))
    IN  IF fromUrl # << >> THEN fromUrl
        ELSE IF fromHeader # << >> THEN fromHeader[1]
        ELSE FallbackName

\* the file name chosen when no output path is given
ResolveFilename(presigned_url, headers) ==
    LET content_disp == IF DictHas(headers, "Content-Disposition")
                        THEN DictGet(headers, "Content-Disposition")
                        ELSE << >>
        fromHeader == IF Contains(content_disp, <<"filename=">>)
                      THEN SearchFilename(content_disp)
                      ELSE << >>
        fromUrl == Last(Split(Split(presigned_url, "?")[1], "/"))
    IN  IF fromHeader # << >> THEN fromHeader[1]
        ELSE IF fromUrl # << >> THEN fromUrl
        ELSE FallbackName

\* format(n, ","): the decimal digits in groups of three
FormatThousands(n) ==
    LET d == FormatNat(n)
        Group(i) == IF i > 1 /\ (Len(d) - i + 1) % 3 = 0
                    THEN <<",", d[i]>> ELSE <<d[i]>>
        RECURSIVE Build(_)
        Build(i) == IF i > Len(d) THEN << >> ELSE Group(i) \o Build(i + 1)
    IN  Build(1)

\* the concatenation of the first k chunks: what the loop has written to
\* the file (an empty chunk is skipped and writes nothing)
RECURSIVE Concat(_, _)
Concat(chunks, k) ==
    IF k = 0 THEN << >> ELSE Concat(chunks, k - 1) \o chunks[k]

ChunkSize == 8192

\* total_size after the first k chunks, when every chunk is counted as a
\* full chunk_size
RECURSIVE TotalSize_FullChunks(_, _)
TotalSize_FullChunks(chunks, k) ==
    IF k = 0 THEN 0
    ELSE TotalSize_FullChunks(chunks, k - 1)
         + (IF chunks[k] # << >> THEN ChunkSize ELSE 0)

\* total_size after the first k chunks: the loop adds len(chunk) for every
\* chunk that is not empty
RECURSIVE TotalSize(_, _)
TotalSize(chunks, k) ==
    IF k = 0 THEN 0
    ELSE TotalSize(chunks, k - 1)
         + (IF chunks[k] # << >> THEN Len(chunks[k]) ELSE 0)

\* a download that goes on after every status below 400
DownloadRejected_ErrorsOnly(status_code) == status_code >= 400

\* the status check made before anything is written
DownloadRejected(status_code) == status_code # 200

DownloadTimeoutMsg == <<"Tajmaut pri skachivanii fajla">>

\* DownloadHandler that catches the timeout alone
DownloadHandler_TimeoutOnly(e) ==
    IF e = "Timeout" THEN [raised |-> "", ret |-> <<FALSE, DownloadTimeoutMsg>>]
    ELSE [raised |-> e, ret |-> << >>]

\* the except clauses of download_file_via_presigned_url
DownloadHandler(e) ==
    IF e = "Timeout" THEN [raised |-> "", ret |-> <<FALSE, DownloadTimeoutMsg>>]
    ELSE IF IsException(e)
    THEN [raised |-> "",
          ret |-> <<FALSE, <<"Oshibka pri skachivanii fajla: ">> \o ExcText(e)>>]
    ELSE [raised |-> e, ret |-> << >>]

\* a download that removes the file it was writing when the stream fails
StreamFailureLeaves_Cleanup(before, written) == before

\* the local storage after the stream of the body failed: the except
\* clauses build the message and return, they remove and restore nothing
StreamFailureLeaves(before, written) == written

\* event: what requests.get and the stream of the body do.  event.exc is
\* raised by requests.get itself; event.stream_exc is raised by the loop
\* after event.received chunks: by iter_content (requests reports a
\* connection that drops or stalls there as ConnectionError) or by
\* file.write (OSError)
download_file_via_presigned_url(files, presigned_url, output_path_arg, event) ==
    LET output_path == output_path_arg
        get == [method |-> "GET", url |-> presigned_url, stream |-> TRUE,
                timeout |-> RequestTimeout]
        save_path == IF output_path # << >>
                     THEN output_path
                     ELSE ResolveFilename(presigned_url, event.headers)
        dir == dirname(abspath(save_path))
        made == Makedirs(files, dir)
        received == IF event.stream_exc = "" THEN Len(event.chunks)
                    ELSE event.received
        written == WriteFile(made, save_path, Concat(event.chunks, received))
        total_size == TotalSize(event.chunks, received)
        closed == WithExit(abspath(save_path), event.stream_exc)
    IN  IF event.exc # ""
        THEN [http |-> <<get>>, files |-> files, handles |-> {}]
             @@ DownloadHandler(event.exc)
        ELSE IF DownloadRejected(event.status_code)
        THEN [http |-> <<get>>, files |-> files, handles |-> {}, raised |-> "",
              ret |-> <<FALSE, <<"Oshibka skachivaniya. Status: ">>
                               \o FormatInt(event.status_code)>>]
        ELSE IF MakedirsError(files, dir) # ""
        THEN [http |-> <<get>>, files |-> files, handles |-> {}]
             @@ DownloadHandler(MakedirsError(files, dir))
        ELSE IF OpenWriteError(made, save_path) # ""
        THEN [http |-> <<get>>, files |-> made, handles |-> {}]
             @@ DownloadHandler(OpenWriteError(made, save_path))
        ELSE IF event.stream_exc # ""
        THEN [http |-> <<get>>, files |-> StreamFailureLeaves(made, written),
              handles |-> closed]
             @@ DownloadHandler(event.stream_exc)
        ELSE [http |-> <<get>>, files |-> written, handles |-> closed,
              raised |-> "",
              ret |-> <<TRUE, <<"Fajl sohranen: ">> \o save_path \o <<" (">>
                              \o FormatThousands(total_size) \o <<" bytes)">>>>]

-----------------------------------------------------------------------------
(* __init__ and _test_connection *)

\* one call of main() to the SDK or to the transport: net says whether a
\* request went to the network, event is how the call ended
Call(name, net, event) == [call |-> name, net |-> net, event |-> event]

\* _test_connection that lets the failure of list_buckets through
test_connection_Raises(event) ==
    [calls |-> <<Call("list_buckets", event # "NoCredentialsError", event)>>,
     raised |-> IF event = "ok" THEN "" ELSE event,
     ret |-> event = "ok"]

\* _test_connection.  event: what list_buckets does.  The SDK raises
\* NoCredentialsError while it signs the request, before it sends it
test_connection(event) ==
    [calls |-> <<Call("list_buckets", event # "NoCredentialsError", event)>>,
     raised |-> IF event = "ok" \/ IsException(event) THEN "" ELSE event,
     ret |-> event = "ok"]

\* an __init__ that leaves the connection test out
Manager_NoProbe(client_event, probe_event) ==
    LET client == <<Call("boto3.client", FALSE, client_event)>>
    IN  [calls |-> client, probe |-> << >>,
         raised |-> IF client_event # "ok" THEN client_event ELSE ""]

\* __init__.  client_event: what boto3.client does; both except clauses
\* raise again what they caught
Manager(client_event, probe_event) ==
    LET client == <<Call("boto3.client", FALSE, client_event)>>
        t == test_connection(probe_event)
    IN  IF client_event # "ok"
        THEN [calls |-> client, probe |-> << >>, raised |-> client_event]
        ELSE [calls |-> client \o t.calls,
              probe |-> IF t.raised = "" THEN <<t.ret>> ELSE << >>,
              raised |-> t.raised]

-----------------------------------------------------------------------------
(* main *)

ActionChoices == {"generate", "upload", "download"}
AclChoices == {"private", "public-read", "authenticated-read"}

\* the exit status of parser.error
ArgparseExit == 2
CliDefaultMaxSize == 10
CliDefaultExpiration == 3600
InterruptExit == 130

\* parser.parse_args(): the exit status (<<n>>) or the namespace (<<ns>>).
\* A required flag left out and a value outside the choices of its flag
\* end in parser.error
parse_args(argv) ==
    IF \/ argv.action = Omitted \/ argv.bucket = Omitted \/ argv.key = Omitted
       \/ argv.action \notin ActionChoices
       \/ argv.acl # Omitted /\ argv.acl \notin AclChoices
    THEN [exit |-> <<ArgparseExit>>, ns |-> << >>]
    ELSE [exit |-> << >>,
          ns |-> <<[action |-> argv.action, bucket |-> argv.bucket,
                    key |-> argv.key, file |-> argv.file,
                    max_size |-> DefaultInt(argv.max_size, CliDefaultMaxSize),
                    content_type |-> Default(argv.content_type, NoneValue),
                    acl |-> Default(argv.acl, "private"),
                    output |-> argv.output,
                    expiration |-> DefaultInt(argv.expiration,
                                              CliDefaultExpiration),
                    verbose |-> argv.verbose]>>]

\* the process ends with this exit status
Exit(m, code) == [m EXCEPT !.pc = "exit", !.exit_code = <<code>>]

\* e is raised inside the try block of main: the except clauses of main,
\* and SystemExit, which none of them catches
MainHandler(m, e) ==
    IF e = "KeyboardInterrupt" THEN Exit(m, InterruptExit)
    ELSE IF IsException(e) THEN Exit(m, 1)
    ELSE [Exit(m, 1) EXCEPT !.uncaught = e]

\* a user interrupt was delivered during step
Interrupted(m, step, yes) ==
    IF yes THEN [m EXCEPT !.interrupt = step] ELSE m

\* a main() that hands --output over as it is, given or not
CliOutputPath_AsGiven(ns) == ns.output

\* the output path main() hands to the download
CliOutputPath(ns) ==
    IF ns.output # << >> THEN ns.output
    ELSE IF basename(PathTokens(ns.key)) # << >>
    THEN basename(PathTokens(ns.key))
    ELSE <<"downloaded_file">>

\* a main() that hands the executor a request it kept from an earlier run
SignedRequest_Stale(m) ==
    IF m.ns.action = "upload"
    THEN [url |-> Append(EndpointUrl, "b"),
          fields |-> <<<<"key", "old">>, <<"bucket", "b">>>>,
          bucket |-> "b", object |-> "old"]
    ELSE GeneratePresignedUrl("b", "old", CliDefaultExpiration)

\* the request main() hands to the executor: the one the signer of this
\* run returned
SignedRequest(m) == m.signed[1]

\* main() calls the executor method with this request and this local path
Executing(m, method, request, path) ==
    [m EXCEPT !.executions =
        Append(@, [method |-> method, request |-> request, path |-> path])]

\* the calls of a step as entries of the log of main()
SignerCalls(signer_calls, event) ==
    [i \in DOMAIN signer_calls |-> Call(signer_calls[i].method, FALSE, event)]

TransportCalls(http_calls, event) ==
    [i \in DOMAIN http_calls |->
        Call(http_calls[i].method, TRUE,
             IF event.exc # "" THEN event.exc ELSE "response")]

-----------------------------------------------------------------------------
(* Inputs *)

Buckets == {"b", "test-bucket"}
Keys == {"k", "uploads/test.txt"}
Expirations == {<< >>, <<1800>>}
MaxSizes == {<< >>} \cup {<<n>> : n \in (-1)..MaxSizeMb}
ContentTypes == {Omitted, NoneValue, "", "image/jpeg", "text/plain"}
Acls == {Omitted, NoneValue, "", "private", "public-read"}

\* the signed data handed to the upload: what create_presigned_post_url
\* returns, and two malformed dicts
SignedData ==
    create_presigned_post_url("b", "k", << >>, <<5>>, "image/jpeg", "private",
                              "ok").ret[1]

PresignedDatas ==
    {SignedData, [url |-> SignedData.url], [fields |-> SignedData.fields]}

FilePaths ==
    { <<"local", ".txt">>,
      <<"/", "nonexistent", "/", "path", "/", "file", ".txt">>,
      <<"secret", ".bin">>,
      <<"README">>,
      <<"ro">> }

UploadContentTypes == {Omitted, "", "image/jpeg"}

Statuses == {200, 201, 204, 301, 403, 500}

XmlDecl == <<"<?xml", " version=1.0", "?>">>

Bodies ==
    { << >>,
      <<"Success">>,
      <<"<", "Error", ">", "<", "Code", ">", "AccessDenied", "</", "Code", ">",
        "</", "Error", ">">>,
      XmlDecl \o <<"<", "Error", ">", "<", "Code", ">", "AccessDenied", "</",
                   "Code", ">", "</", "Error", ">">>,
      XmlDecl \o <<"<", "Error", ">", "<", "Code", ">", "EntityTooLarge", "</",
                   "Code", ">", "<", "Message", ">", "too large", "</",
                   "Message", ">", "</", "Error", ">">>,
      XmlDecl \o <<"<", "Error", ">", "<", "Code", ">", "AccessDenied">> }

TransportExceptions == {"Timeout", "ConnectionError", "KeyboardInterrupt"}

\* parse_exc: a user interrupt delivered while the XML body of an error
\* response is parsed
UploadEvents ==
    [exc : {""}, status_code : Statuses, text : Bodies, parse_exc : {""}]
    \cup [exc : TransportExceptions, status_code : {0}, text : {<< >>},
          parse_exc : {""}]
    \cup {e \in [exc : {""}, status_code : Statuses, text : Bodies,
                 parse_exc : {"KeyboardInterrupt"}] :
            /\ e.status_code \notin UploadSuccessStatuses
            /\ Contains(e.text, <<"<?xml">>)}

Urls ==
    { <<"https:", "/", "/", "test.url", "/", "file", ".txt">>,
      GeneratePresignedUrl("b", "k", DefaultExpiration),
      <<"https:", "/", "/", "test.url", "/", "dir", "/", "?", "sig">> }

OutputPaths ==
    { << >>,
      <<".", "/", "downloaded", ".txt">>,
      <<"out", "/", "k">>,
      <<"ro", "/", "k">>,
      <<"local", ".txt", "/", "k">> }

HeaderSets ==
    { << >>,
      << <<"Content-Disposition",
           <<"attachment; ", "filename=", Quote, "realname", ".txt", Quote>> >> >>,
      << <<"Content-Disposition",
           <<"attachment; ", "filename=", "realname", ".txt">> >> >>,
      << <<"Content-Disposition", <<"inline">> >> >> }

ChunkLists == { << >>, << <<1, 2>>, <<3>> >>, << <<1>>, << >>, <<2>> >> }

DownloadStatuses == {200, 206, 404}

DownloadEvents ==
    [exc : TransportExceptions, status_code : {0}, headers : {<< >>},
     chunks : {<< >>}, stream_exc : {""}, received : {0}]
    \cup [exc : {""}, status_code : DownloadStatuses \ {200}, headers : {<< >>},
          chunks : {<< >>}, stream_exc : {""}, received : {0}]
    \cup {e \in [exc : {""}, status_code : {200}, headers : HeaderSets,
                 chunks : ChunkLists,
                 stream_exc : {"", "ConnectionError", "OSError"},
                 received : 0..3] :
            /\ \A i \in DOMAIN e.chunks : Len(e.chunks[i]) <= ChunkSize
            /\ IF e.stream_exc = "" THEN e.received = 0
               ELSE e.received < Len(e.chunks)}

\* what boto3.client and list_buckets do
ClientEvents == {"ok", "ValueError", "NoCredentialsError", "KeyboardInterrupt"}
ProbeEvents ==
    {"ok", "ClientError", "EndpointConnectionError", "NoCredentialsError",
     "KeyboardInterrupt"}

\* what a call that signs may do, with the credentials there or not
SignsWith(credentials, event) ==
    IF credentials THEN event # "NoCredentialsError"
    ELSE event \in {"NoCredentialsError", "KeyboardInterrupt"}

\* the command lines: a flag that is left out is Omitted (<< >> for a path
\* or a number)
BaseArgv ==
    [action |-> "generate", bucket |-> "b", key |-> "k", file |-> << >>,
     max_size |-> << >>, content_type |-> Omitted, acl |-> Omitted,
     output |-> << >>, expiration |-> << >>, verbose |-> FALSE]

Argvs ==
    {[BaseArgv EXCEPT !.action = a] : a \in {Omitted, "delete"}}
    \cup {[BaseArgv EXCEPT !.action = a, !.bucket = Omitted] :
             a \in ActionChoices}
    \cup {[BaseArgv EXCEPT !.action = a, !.key = Omitted] : a \in ActionChoices}
    \cup {[BaseArgv EXCEPT !.action = a, !.acl = "bogus"] : a \in ActionChoices}
    \cup {[BaseArgv EXCEPT !.key = k, !.acl = acl, !.content_type = ct,
                           !.max_size = ms, !.expiration = ex] :
             k \in Keys, acl \in {Omitted, "public-read"},
             ct \in {Omitted, "image/jpeg"}, ms \in {<< >>, <<5>>},
             ex \in Expirations}
    \cup {[BaseArgv EXCEPT !.max_size = <<n>>] : n \in {0, -1}}
    \cup {[BaseArgv EXCEPT !.key = ""], [BaseArgv EXCEPT !.bucket = ""]}
    \cup {[BaseArgv EXCEPT !.action = "upload", !.max_size = <<0>>,
                           !.file = <<"local", ".txt">>]}
    \cup {[BaseArgv EXCEPT !.action = "upload", !.file = f, !.content_type = ct,
                           !.verbose = v] :
             f \in {<< >>} \cup (FilePaths \ {<<"ro">>}),
             ct \in {Omitted, "text/plain"}, v \in BOOLEAN}
    \cup {[BaseArgv EXCEPT !.action = "download", !.key = k, !.output = o] :
             k \in Keys \cup {"dir/"},
             o \in {<< >>, <<".", "/", "downloaded", ".txt">>,
                    <<"ro", "/", "k">>}}

-----------------------------------------------------------------------------
(* The state machine *)

\* the storage the process starts with: its working directory /work holds
\* a readable file, an unreadable one, an earlier download and a directory
\* that cannot be written to
InitFs ==
    (<< >> :> DirNode(FALSE))
    @@ (Cwd :> DirNode(TRUE))
    @@ (Append(Cwd, <<"local", ".txt">>) :> FileNode(<<1, 2, 3>>, TRUE))
    @@ (Append(Cwd, <<"README">>) :> FileNode(<<1, 2>>, TRUE))
    @@ (Append(Cwd, <<"secret", ".bin">>) :> FileNode(<<5>>, FALSE))
    @@ (Append(Cwd, <<"downloaded", ".txt">>) :> FileNode(<<4, 4, 4, 4>>, TRUE))
    @@ (Append(Cwd, <<"ro">>) :> DirNode(FALSE))

\* main() before its first statement.  pc is "lib" when the manager is
\* used as a library and main() does not run
MainInit ==
    [pc |-> "start", argv |-> << >>, credentials |-> TRUE, ns |-> << >>,
     calls |-> << >>, probe |-> << >>, signed |-> << >>, transfer |-> << >>,
     executions |-> << >>, result |-> << >>, exit_code |-> << >>,
     uncaught |-> "", interrupt |-> ""]

Init ==
    /\ fs = InitFs
    /\ downloads = 0
    /\ op = "idle"
    /\ args = << >>
    /\ signer = << >>
    /\ http = << >>
    /\ raised = ""
    /\ ret = << >>
    /\ store = NoObjects
    /\ handles = {}
    /\ main \in {[MainInit EXCEPT !.pc = pc] : pc \in {"lib", "start"}}

\* nothing was uploaded or downloaded yet.  A signer reads neither the
\* local storage nor the store, so its calls are explored from here only
Untouched == downloads = 0 /\ store = NoObjects

CreatePresignedPostUrl ==
    /\ main.pc = "lib"
    /\ op = "idle"
    /\ downloads < MaxDownloads
    /\ Untouched
    /\ \E bucket_name \in Buckets, object_name \in Keys,
          expiration \in Expirations, max_size_mb \in MaxSizes,
          content_type \in ContentTypes, acl \in Acls, event \in SignerEvents :
        LET r == create_presigned_post_url(bucket_name, object_name, expiration,
                                           max_size_mb, content_type, acl, event)
        IN  /\ op' = "create_presigned_post_url"
            /\ args' = [bucket_name |-> bucket_name, object_name |-> object_name,
                        expiration |-> expiration, max_size_mb |-> max_size_mb,
                        content_type |-> content_type, acl |-> acl]
            /\ signer' = r.signer
            /\ http' = << >>
            /\ raised' = r.raised
            /\ ret' = r.ret
            /\ UNCHANGED <<fs, downloads, store, handles, main>>

CreatePresignedGetUrl ==
    /\ main.pc = "lib"
    /\ op = "idle"
    /\ downloads < MaxDownloads
    /\ Untouched
    /\ \E bucket_name \in Buckets, object_name \in Keys,
          expiration \in Expirations, event \in SignerEvents :
        LET r == create_presigned_get_url(bucket_name, object_name, expiration,
                                          event)
        IN  /\ op' = "create_presigned_get_url"
            /\ args' = [bucket_name |-> bucket_name, object_name |-> object_name,
                        expiration |-> expiration, event |-> event]
            /\ signer' = r.signer
            /\ http' = << >>
            /\ raised' = r.raised
            /\ ret' = r.ret
            /\ UNCHANGED <<fs, downloads, store, handles, main>>

UploadFileViaPresignedPost ==
    /\ main.pc = "lib"
    /\ op = "idle"
    /\ downloads < MaxDownloads
    /\ \E presigned_data \in PresignedDatas, file_path \in FilePaths,
          content_type \in UploadContentTypes, event \in UploadEvents :
        LET r == upload_file_via_presigned_post(fs, presigned_data, file_path,
                                                content_type, event)
        IN  /\ op' = "upload_file_via_presigned_post"
            /\ args' = [presigned_data |-> presigned_data,
                        file_path |-> file_path, content_type |-> content_type,
                        event |-> event, after |-> r.presigned_data]
            /\ signer' = << >>
            /\ http' = r.http
            /\ raised' = r.raised
            /\ ret' = r.ret
            /\ store' = IF r.http = << >> THEN store
                        ELSE StoreAfterPost(store, r.http[1], event)
            /\ handles' = handles \cup r.handles
            /\ UNCHANGED <<fs, downloads, main>>

DownloadFileViaPresignedUrl ==
    /\ main.pc = "lib"
    /\ op = "idle"
    /\ downloads < MaxDownloads
    /\ \E presigned_url \in Urls, output_path \in OutputPaths,
          event \in DownloadEvents :
        LET r == download_file_via_presigned_url(fs, presigned_url, output_path,
                                                 event)
        IN  /\ StoreAnswers(store, presigned_url, event)
            /\ op' = "download_file_via_presigned_url"
            /\ args' = [presigned_url |-> presigned_url,
                        output_path |-> output_path, event |-> event]
            /\ signer' = << >>
            /\ http' = r.http
            /\ raised' = r.raised
            /\ ret' = r.ret
            /\ fs' = r.files
            /\ downloads' = downloads + 1
            /\ handles' = handles \cup r.handles
            /\ UNCHANGED <<store, main>>

\* the caller takes the result; the manager is ready for the next call
Return ==
    /\ main.pc = "lib"
    /\ op # "idle"
    /\ op' = "idle"
    /\ args' = << >>
    /\ signer' = << >>
    /\ http' = << >>
    /\ raised' = ""
    /\ ret' = << >>
    /\ UNCHANGED <<fs, downloads, store, handles, main>>

\* the variables of the library calls
lib_vars == <<op, args, signer, http, raised, ret, downloads>>

\* lines 339-400 of main(): the command line is parsed
ParseArgs ==
    /\ main.pc = "start"
    /\ \E argv \in Argvs, credentials \in BOOLEAN :
        LET r == parse_args(argv)
            m == [main EXCEPT !.argv = argv, !.credentials = credentials]
        IN  main' = IF r.exit # << >> THEN Exit(m, r.exit[1])
                    ELSE [m EXCEPT !.pc = "parsed", !.ns = r.ns[1]]
    /\ UNCHANGED <<lib_vars, fs, store, handles>>

\* lines 402-407: the log level is set, outside the try block.  A user
\* interrupt here is caught by nothing: the interpreter prints the
\* traceback and ends with status 1, or kills itself with SIGINT (130)
ConfigureLogging ==
    /\ main.pc = "parsed"
    /\ \E event \in {"ok", "KeyboardInterrupt"}, code \in {1, InterruptExit} :
        main' = IF event = "ok" THEN [main EXCEPT !.pc = "try"]
                ELSE [Exit(Interrupted(main, "logging", TRUE), code)
                        EXCEPT !.uncaught = event]
    /\ UNCHANGED <<lib_vars, fs, store, handles>>

\* lines 409-416: the manager is constructed
Construct ==
    /\ main.pc = "try"
    /\ \E client_event \in ClientEvents, probe_event \in ProbeEvents :
        /\ main.credentials => client_event # "NoCredentialsError"
        /\ SignsWith(main.credentials, probe_event)
        /\ LET r == Manager(client_event, probe_event)
               m == Interrupted([main EXCEPT !.calls = @ \o r.calls,
                                             !.probe = r.probe],
                                "construct", r.raised = "KeyboardInterrupt")
           IN  main' = IF r.raised # "" THEN MainHandler(m, r.raised)
                       ELSE [m EXCEPT !.pc = "ready"]
    /\ UNCHANGED <<lib_vars, fs, store, handles>>

\* what main() does with the answer r of a signer: the exception goes to
\* the except clauses, None ends the run with status 1; otherwise main()
\* goes on to the transfer (next_pc "signed") or returns (next_pc "exit")
AfterSigner(m0, r, event, step, next_pc) ==
    LET m == Interrupted([m0 EXCEPT !.calls = @ \o SignerCalls(r.signer, event),
                                    !.signed = r.ret],
                         step, r.raised = "KeyboardInterrupt")
    IN  IF r.raised # "" THEN MainHandler(m, r.raised)
        ELSE IF r.ret = << >> THEN Exit(m, 1)
        ELSE IF next_pc = "exit" THEN Exit(m, 0)
        ELSE [m EXCEPT !.pc = next_pc]

\* a main() that does not look at the success flag of the executor
AfterExecutor_IgnoresResult(m0, r, event, step, swallowed) ==
    LET m == Interrupted([m0 EXCEPT !.calls = @ \o TransportCalls(r.http, event),
                                    !.transfer = IF r.http = << >> THEN << >>
                                                 ELSE <<event>>,
                                    !.result = r.ret],
                         step, r.raised = "KeyboardInterrupt" \/ swallowed)
    IN  IF r.raised # "" THEN MainHandler(m, r.raised)
        ELSE Exit(m, 0)

\* what main() does with the answer r of an executor
AfterExecutor(m0, r, event, step, swallowed) ==
    LET m == Interrupted([m0 EXCEPT !.calls = @ \o TransportCalls(r.http, event),
                                    !.transfer = IF r.http = << >> THEN << >>
                                                 ELSE <<event>>,
                                    !.result = r.ret],
                         step, r.raised = "KeyboardInterrupt" \/ swallowed)
    IN  IF r.raised # "" THEN MainHandler(m, r.raised)
        ELSE IF r.ret[1] THEN Exit(m, 0)
        ELSE Exit(m, 1)

\* lines 419-460: --action generate
Generate ==
    /\ main.pc = "ready"
    /\ main.ns.action = "generate"
    /\ \E event \in SignerEvents :
        /\ SignsWith(main.credentials, event)
        /\ LET ns == main.ns
               r == create_presigned_post_url(ns.bucket, ns.key,
                        <<ns.expiration>>, <<ns.max_size>>, ns.content_type,
                        ns.acl, event)
           IN  main' = AfterSigner(main, r, event, "sign", "exit")
    /\ UNCHANGED <<lib_vars, fs, store, handles>>

\* a main() that also looks for the file before it asks for a signature
FileArgMissing_ChecksFile(files, ns) ==
    ns.file = << >> \/ ~exists(files, ns.file)

\* line 463, `if not args.file`: main() looks at the flag only, not at the
\* local storage
FileArgMissing(files, ns) == ns.file = << >>

\* lines 462-483: --action upload, up to the signed request
UploadSign ==
    /\ main.pc = "ready"
    /\ main.ns.action = "upload"
    /\ IF FileArgMissing(fs, main.ns)
       THEN main' = Exit(main, 1)
       ELSE \E event \in SignerEvents :
              /\ SignsWith(main.credentials, event)
              /\ LET ns == main.ns
                     r == create_presigned_post_url(ns.bucket, ns.key,
                              <<ns.expiration>>, <<ns.max_size>>,
                              ns.content_type, ns.acl, event)
                 IN  main' = AfterSigner(main, r, event, "sign", "signed")
    /\ UNCHANGED <<lib_vars, fs, store, handles>>

\* lines 485-497: --action upload, the transfer
UploadTransfer ==
    /\ main.pc = "signed"
    /\ main.ns.action = "upload"
    /\ \E event \in UploadEvents :
        LET request == SignedRequest(main)
            r == upload_file_via_presigned_post(fs, request, main.ns.file,
                     main.ns.content_type, event)
            m == Executing(main, "upload_file_via_presigned_post", request,
                           main.ns.file)
            posted == r.http # << >>
        IN  /\ main' = AfterExecutor(m, r, event, "transfer",
                            posted /\ r.raised = ""
                            /\ event.parse_exc = "KeyboardInterrupt")
            /\ store' = IF posted THEN StoreAfterPost(store, r.http[1], event)
                        ELSE store
            /\ handles' = handles \cup r.handles
    /\ UNCHANGED <<lib_vars, fs>>

\* lines 499-517: --action download, up to the signed URL
DownloadSign ==
    /\ main.pc = "ready"
    /\ main.ns.action = "download"
    /\ \E event \in SignerEvents :
        /\ SignsWith(main.credentials, event)
        /\ LET ns == main.ns
               r == create_presigned_get_url(ns.bucket, ns.key,
                                             <<ns.expiration>>, event)
           IN  main' = AfterSigner(main, r, event, "sign", "signed")
    /\ UNCHANGED <<lib_vars, fs, store, handles>>

\* lines 514-530: --action download, the transfer
DownloadTransfer ==
    /\ main.pc = "signed"
    /\ main.ns.action = "download"
    /\ \E event \in DownloadEvents :
        LET request == SignedRequest(main)
            output_path == CliOutputPath(main.ns)
            r == download_file_via_presigned_url(fs, request, output_path,
                                                 event)
            m == Executing(main, "download_file_via_presigned_url", request,
                           output_path)
        IN  /\ StoreAnswers(store, request, event)
            /\ main' = AfterExecutor(m, r, event, "transfer", FALSE)
            /\ fs' = r.files
            /\ handles' = handles \cup r.handles
    /\ UNCHANGED <<lib_vars, store>>

Next ==
    \/ CreatePresignedPostUrl
    \/ CreatePresignedGetUrl
    \/ UploadFileViaPresignedPost
    \/ DownloadFileViaPresignedUrl
    \/ Return
    \/ ParseArgs
    \/ ConfigureLogging
    \/ Construct
    \/ Generate
    \/ UploadSign
    \/ UploadTransfer
    \/ DownloadSign
    \/ DownloadTransfer

Spec == Init /\ [][Next]_vars

-----------------------------------------------------------------------------
(* Properties of create_presigned_post_url *)

\* the state after a call of create_presigned_post_url: signer[1] is the
\* call of generate_presigned_post it made
AfterCreate == op = "create_presigned_post_url"

ExactIndexes(conditions) ==
    {j \in DOMAIN conditions : conditions[j].form = "dict"}

\* the indexes of the conditions named `name`
Named(conditions, name) ==
    {j \in DOMAIN conditions : conditions[j].name = name}

\* the caller named a value: the argument is present and is not empty
CallerGave(arg) == arg # Omitted /\ Truthy(arg)

\* C1: every exact-match condition handed to the signer is mirrored by a
\* field of the same name and value, and every field handed to the signer
\* is mirrored by exactly one exact-match condition, which has its value.
C1_FieldConditionSymmetry ==
    AfterCreate =>
        LET Fields == signer[1].Fields
            Conditions == signer[1].Conditions
        IN  /\ \A j \in ExactIndexes(Conditions) :
                  /\ DictHas(Fields, Conditions[j].name)
                  /\ DictGet(Fields, Conditions[j].name) = Conditions[j].value
            /\ \A i \in DOMAIN Fields :
                  /\ Cardinality({j \in ExactIndexes(Conditions) :
                         Conditions[j].name = Fields[i][1]}) = 1
                  /\ \E j \in ExactIndexes(Conditions) :
                         /\ Conditions[j].name = Fields[i][1]
                         /\ Conditions[j].value = Fields[i][2]
                  /\ Cardinality({k \in DOMAIN Fields :
                         Fields[k][1] = Fields[i][1]}) = 1

\* a policy with all four fields was handed to the signer
C1_Witness ==
    /\ AfterCreate
    /\ Len(signer[1].Fields) = 4
    /\ Cardinality(ExactIndexes(signer[1].Conditions)) = 4

NamesHandedToSigner ==
    DictKeys(signer[1].Fields)
    \cup {signer[1].Conditions[j].name : j \in DOMAIN signer[1].Conditions}

\* C2 as stated: no success_action_status, and nothing beyond the size
\* range, key, bucket and the acl / Content-Type the caller named.
C2_OnlyWhatCallerNamed ==
    AfterCreate =>
        /\ "success_action_status" \notin NamesHandedToSigner
        /\ NamesHandedToSigner \subseteq
               {"content-length-range", "key", "bucket"}
               \cup (IF CallerGave(args.acl) THEN {"acl"} ELSE {})
               \cup (IF CallerGave(args.content_type)
                     THEN {"Content-Type"} ELSE {})

\* C2, amended: no success_action_status, and nothing beyond the size
\* range, key, bucket, the Content-Type the caller named and the acl, which
\* is the caller's or, when the caller passes none, the default "private".
C2_NoStatusNoExtras ==
    AfterCreate =>
        /\ "success_action_status" \notin NamesHandedToSigner
        /\ NamesHandedToSigner \subseteq
               {"content-length-range", "key", "bucket"}
               \cup (IF CallerGave(args.acl) \/ args.acl = Omitted
                     THEN {"acl"} ELSE {})
               \cup (IF CallerGave(args.content_type)
                     THEN {"Content-Type"} ELSE {})
        /\ args.acl = Omitted /\ DictHas(signer[1].Fields, "acl")
               => DictGet(signer[1].Fields, "acl") = "private"

\* the caller passed no acl and the policy carries acl = private
C2_Witness ==
    /\ AfterCreate
    /\ args.acl = Omitted
    /\ DictHas(signer[1].Fields, "acl")
    /\ DictGet(signer[1].Fields, "acl") = "private"
    /\ "success_action_status" \notin NamesHandedToSigner

RangeIndexes(conditions) ==
    {j \in DOMAIN conditions : conditions[j].form = "list"}

\* C3: for max_size_mb >= 1 the conditions hold exactly one size range,
\* from 1 to max_size_mb * 1048576.
C3_SizeRange ==
    AfterCreate /\ DefaultInt(args.max_size_mb, DefaultMaxSizeMb) >= 1 =>
        LET Conditions == signer[1].Conditions
        IN  /\ Cardinality(RangeIndexes(Conditions)) = 1
            /\ \A j \in RangeIndexes(Conditions) :
                  /\ Conditions[j].name = "content-length-range"
                  /\ Conditions[j].lo = 1
                  /\ Conditions[j].hi
                         = DefaultInt(args.max_size_mb, DefaultMaxSizeMb) * 1048576

\* a policy for 5 MB, with the range 1 .. 5242880
C3_Witness ==
    /\ AfterCreate
    /\ args.max_size_mb = <<5>>
    /\ signer[1].Conditions[1].lo = 1
    /\ signer[1].Conditions[1].hi = 5242880

\* C4: with an acl and a content type the conditions are, in this order,
\* the size range, key, bucket, acl and Content-Type, and the fields are
\* key, bucket, acl and Content-Type, each with the caller's value.
C4_OrderWithAclAndContentType ==
    AfterCreate /\ CallerGave(args.acl) /\ CallerGave(args.content_type) =>
        /\ signer[1].Conditions =
               << RangeCondition(1,
                      DefaultInt(args.max_size_mb, DefaultMaxSizeMb) * 1048576),
                  ExactCondition("key", args.object_name),
                  ExactCondition("bucket", args.bucket_name),
                  ExactCondition("acl", args.acl),
                  ExactCondition("Content-Type", args.content_type) >>
        /\ signer[1].Fields =
               << <<"key", args.object_name>>, <<"bucket", args.bucket_name>>,
                  <<"acl", args.acl>>, <<"Content-Type", args.content_type>> >>

\* the policy for bucket b, key k, 5 MB, image/jpeg, private
C4_Witness ==
    /\ AfterCreate
    /\ args.bucket_name = "b" /\ args.object_name = "k"
    /\ args.max_size_mb = <<5>>
    /\ args.content_type = "image/jpeg" /\ args.acl = "private"
    /\ Len(signer[1].Conditions) = 5
    /\ signer[1].Conditions[1].hi = 5242880
    /\ signer[1].Conditions[5].name = "Content-Type"

\* C5: with a content type there is exactly one Content-Type condition,
\* with the given value, and the field has it too; without one no condition
\* and no field names Content-Type.
C5_ContentTypeIffProvided ==
    AfterCreate =>
        LET Fields == signer[1].Fields
            Conditions == signer[1].Conditions
        IN  IF CallerGave(args.content_type)
            THEN /\ Cardinality(Named(Conditions, "Content-Type")) = 1
                 /\ \A j \in Named(Conditions, "Content-Type") :
                        /\ Conditions[j].form = "dict"
                        /\ Conditions[j].value = args.content_type
                 /\ DictHas(Fields, "Content-Type")
                 /\ DictGet(Fields, "Content-Type") = args.content_type
            ELSE /\ Named(Conditions, "Content-Type") = {}
                 /\ ~DictHas(Fields, "Content-Type")

\* a policy for image/jpeg carries the condition and the field
C5_Witness ==
    /\ AfterCreate
    /\ args.content_type = "image/jpeg"
    /\ Named(signer[1].Conditions, "Content-Type") # {}
    /\ DictHas(signer[1].Fields, "Content-Type")

\* C6 as stated: the acl condition and field are there if and only if the
\* caller provides an acl.
C6_AclIffCallerProvides ==
    AfterCreate =>
        /\ DictHas(signer[1].Fields, "acl") <=> CallerGave(args.acl)
        /\ Named(signer[1].Conditions, "acl") # {} <=> CallerGave(args.acl)

\* C6, amended: the acl condition and field are there if and only if the
\* acl in effect, the caller's or "private" when the caller passes none,
\* is not empty; the field and the condition then have that value.
C6_AclIffInEffect ==
    AfterCreate =>
        LET Fields == signer[1].Fields
            Conditions == signer[1].Conditions
            acl == IF args.acl = Omitted THEN "private" ELSE args.acl
        IN  IF acl # NoneValue /\ acl # ""
            THEN /\ DictHas(Fields, "acl")
                 /\ DictGet(Fields, "acl") = acl
                 /\ Cardinality(Named(Conditions, "acl")) = 1
                 /\ \A j \in Named(Conditions, "acl") :
                        Conditions[j].form = "dict" /\ Conditions[j].value = acl
            ELSE /\ ~DictHas(Fields, "acl")
                 /\ Named(Conditions, "acl") = {}

\* the caller passed no acl and the conditions require acl = private
C6_Witness ==
    /\ AfterCreate
    /\ args.acl = Omitted
    /\ \E j \in Named(signer[1].Conditions, "acl") :
           signer[1].Conditions[j].value = "private"

-----------------------------------------------------------------------------
(* Properties of the two executors *)

AfterUpload == op = "upload_file_via_presigned_post"
AfterDownload == op = "download_file_via_presigned_url"

\* the POST was issued and the server answered with a status
UploadAnswered == AfterUpload /\ http # << >> /\ args.event.exc = ""

\* the texts of the <Code> elements of a body
ErrorCodes(text) ==
    {text[i + 3] : i \in {k \in 1..(Len(text) - 3) :
                             /\ text[k] = "<" /\ text[k + 1] = "Code"
                             /\ text[k + 2] = ">"
                             /\ text[k + 3] \notin Markup}}

\* C7: a status of 200, 201 or 204 gives success; any other status gives
\* failure with a message that contains the status code and, for an XML
\* error document, the text of its error code.
C7_UploadStatusClassification ==
    UploadAnswered =>
        IF args.event.status_code \in {200, 201, 204}
        THEN ret[1] = TRUE
        ELSE /\ ret[1] = FALSE
             /\ Contains(ret[2], FormatInt(args.event.status_code))
             /\ \A code \in ErrorCodes(args.event.text) :
                    Contains(ret[2], <<code>>)

\* status 403 with <Code>AccessDenied</Code>: the message has 403 and
\* AccessDenied
C7_Witness ==
    /\ UploadAnswered
    /\ args.event.status_code = 403
    /\ ErrorCodes(args.event.text) = {"AccessDenied"}
    /\ ret[1] = FALSE
    /\ Contains(ret[2], <<"4", "0", "3">>)
    /\ Contains(ret[2], <<"AccessDenied">>)

FileNotFoundMsg(file_path) == <<"Fajl ne najden: ">> \o file_path

FileMissing == abspath(args.file_path) \notin DOMAIN fs

\* the file is there and open(file_path, "rb") fails
FileUnreadable ==
    /\ abspath(args.file_path) \in DOMAIN fs
    /\ \/ fs[abspath(args.file_path)].kind = "dir"
       \/ ~fs[abspath(args.file_path)].perm

\* C8 as stated: a file that does not exist or is not readable gives the
\* file-not-found message with the path, and no POST.
C8_MissingOrUnreadableIsNotFound ==
    AfterUpload /\ (FileMissing \/ FileUnreadable) =>
        /\ ret = <<FALSE, FileNotFoundMsg(args.file_path)>>
        /\ http = << >>

\* C8, amended: a file that does not exist gives the file-not-found
\* message with the path; a file that exists and cannot be read gives a
\* failure with the general upload-error message; no POST in either case.
C8_MissingFileShortCircuit ==
    AfterUpload =>
        /\ FileMissing =>
              /\ raised = ""
              /\ ret = <<FALSE, FileNotFoundMsg(args.file_path)>>
              /\ http = << >>
        /\ FileUnreadable =>
              /\ raised = ""
              /\ ret[1] = FALSE
              /\ ret[2][1] = "Oshibka pri zagruzke fajla: "
              /\ http = << >>

\* an unreadable file: a failure that is not the file-not-found message,
\* and no POST
C8_Witness ==
    /\ AfterUpload
    /\ FileUnreadable
    /\ ret[1] = FALSE
    /\ ret # <<FALSE, FileNotFoundMsg(args.file_path)>>
    /\ http = << >>

\* the transport call was made and timed out
UploadTimedOut == AfterUpload /\ http # << >> /\ args.event.exc = "Timeout"
DownloadTimedOut == AfterDownload /\ http # << >> /\ args.event.exc = "Timeout"

AllStatuses == Statuses \cup DownloadStatuses

\* the messages of the other failures of the two executors
StatusFailureMessages ==
    {ClassifyUploadResponse(st, text, pe)[2] :
        st \in Statuses, text \in Bodies, pe \in {"", "KeyboardInterrupt"}}
    \cup {download_file_via_presigned_url(InitFs, u, << >>,
              [exc |-> "", status_code |-> st, headers |-> << >>,
               chunks |-> << >>, stream_exc |-> "", received |-> 0]).ret[2] :
          st \in DownloadStatuses \ {200}, u \in Urls}

\* the exceptions of the model that the last except clause catches
OtherExceptions ==
    {"ConnectionError", "KeyError", "PermissionError", "IsADirectoryError",
     "FileExistsError", "NotADirectoryError", "FileNotFoundError", "OSError"}

GenericErrorMessages ==
    {UploadHandler(e).ret[2] : e \in OtherExceptions}
    \cup {DownloadHandler(e).ret[2] : e \in OtherExceptions}

\* C9: a timeout of the POST or of the GET gives a failure whose message is
\* the timeout message of the executor; it holds no status code and is none
\* of the status-failure messages and none of the general error messages.
C9_TimeoutDistinct ==
    /\ UploadTimedOut => ret = <<FALSE, <<"Tajmaut pri zagruzke fajla">> >>
    /\ DownloadTimedOut => ret = <<FALSE, <<"Tajmaut pri skachivanii fajla">> >>
    /\ UploadTimedOut \/ DownloadTimedOut =>
          /\ raised = ""
          /\ \A st \in AllStatuses : ~Contains(ret[2], FormatInt(st))
          /\ ret[2] \notin StatusFailureMessages
          /\ ret[2] \notin GenericErrorMessages

\* the GET timed out and the download reports it
C9_Witness ==
    /\ DownloadTimedOut
    /\ ret = <<FALSE, DownloadTimeoutMsg>>

\* no user interrupt was delivered during the call
NoInterrupt(event) ==
    /\ event.exc # "KeyboardInterrupt"
    /\ "stream_exc" \in DOMAIN event => event.stream_exc # "KeyboardInterrupt"

\* the inputs of an upload that make it fail
UploadFailureMode(files, a) ==
    \/ abspath(a.file_path) \notin DOMAIN files
    \/ OpenRead(files, a.file_path) # ""
    \/ {"url", "fields"} \ DOMAIN a.presigned_data # {}
    \/ a.event.exc # ""
    \/ a.event.status_code \notin {200, 201, 204}

\* the inputs of a download that make it fail
DownloadFailureMode(files, a) ==
    \/ a.event.exc # ""
    \/ a.event.status_code # 200
    \/ a.event.stream_exc # ""
    \/ /\ a.event.exc = "" /\ a.event.status_code = 200
       /\ LET path == IF a.output_path # << >> THEN a.output_path
                        ELSE ResolveFilename(a.presigned_url, a.event.headers)
          IN  \/ MakedirsError(files, dirname(abspath(path))) # ""
              \/ OpenWriteError(Makedirs(files, dirname(abspath(path))),
                                path) # ""

\* C10: a call of an executor that no user interrupt cuts short returns a
\* pair (success, message) and raises nothing; in every failure mode the
\* pair is (False, message), otherwise it is (True, message).
C10_ExecutorsNeverRaise ==
    [][ /\ op = "idle"
        /\ op' \in {"upload_file_via_presigned_post",
                    "download_file_via_presigned_url"}
        /\ NoInterrupt(args'.event)
        => /\ raised' = ""
           /\ Len(ret') = 2
           /\ ret'[1] \in BOOLEAN
           /\ ret'[2] # << >>
           /\ ret'[1] = FALSE <=>
                  IF op' = "upload_file_via_presigned_post"
                  THEN UploadFailureMode(fs, args')
                  ELSE DownloadFailureMode(fs, args') ]_vars

\* a download whose destination cannot be written returns a failure
C10_Witness ==
    /\ AfterDownload
    /\ args.event.exc = "" /\ args.event.status_code = 200
    /\ args.event.stream_exc = ""
    /\ raised = ""
    /\ ret[1] = FALSE

-----------------------------------------------------------------------------
(* Properties of download_file_via_presigned_url *)

\* the GET was answered with a status
DownloadAnswered(a) == a.event.exc = ""

\* C11: a GET answered with a status other than 200 makes the download
\* return a failure whose message contains the status code, and leaves the
\* local storage as it was: no file created or truncated, no directory
\* created.
C11_NonOkStatusLeavesStorage ==
    [][ /\ op = "idle"
        /\ op' = "download_file_via_presigned_url"
        /\ DownloadAnswered(args')
        /\ args'.event.status_code # 200
        => /\ raised' = ""
           /\ ret'[1] = FALSE
           /\ Contains(ret'[2], FormatInt(args'.event.status_code))
           /\ fs' = fs ]_vars

\* a GET answered 206 towards a path that holds an earlier download: a
\* failure that names 206, and the earlier download is still there
C11_Witness ==
    /\ AfterDownload
    /\ DownloadAnswered(args)
    /\ args.event.status_code = 206
    /\ args.output_path = <<".", "/", "downloaded", ".txt">>
    /\ ret[1] = FALSE
    /\ Contains(ret[2], <<"2", "0", "6">>)
    /\ fs = InitFs

\* the names that a Content-Disposition value gives in the quoted form
\* filename="name", name not empty
QuotedFilenames(v) ==
    {SubSeq(v, i + 2, j - 1) : <<i, j>> \in
        {q \in (DOMAIN v) \X (DOMAIN v) :
            /\ v[q[1]] = "filename="
            /\ q[1] + 1 \in DOMAIN v /\ v[q[1] + 1] = Quote
            /\ q[2] > q[1] + 2 /\ v[q[2]] = Quote
            /\ \A m \in (q[1] + 2)..(q[2] - 1) : v[m] # Quote}}

\* the last segment of the path of a URL, the query left out
UrlSegment(url) ==
    LET qs == {i \in DOMAIN url : url[i] = "?"}
        path == IF qs = {} THEN url
                ELSE SubSeq(url, 1, (CHOOSE i \in qs : \A k \in qs : i <= k) - 1)
        ss == {i \in DOMAIN path : path[i] = "/"}
        from == IF ss = {} THEN 1
                ELSE (CHOOSE i \in ss : \A k \in ss : i >= k) + 1
    IN  SubSeq(path, from, Len(path))

\* the destination the precedence rule gives to the download with inputs a
Destination(a) ==
    LET names == IF DictHas(a.event.headers, "Content-Disposition")
                 THEN QuotedFilenames(DictGet(a.event.headers,
                                              "Content-Disposition"))
                 ELSE {}
    IN  IF a.output_path # << >> THEN a.output_path
        ELSE IF names # {} THEN CHOOSE n \in names : TRUE
        ELSE IF UrlSegment(a.presigned_url) # << >>
        THEN UrlSegment(a.presigned_url)
        ELSE <<"downloaded_file">>

\* C12: a download answered 200 writes to one destination only: the output
\* path when one is given; otherwise the quoted file name of the
\* Content-Disposition header when there is one; otherwise the last path
\* segment of the URL without its query; otherwise, that segment being
\* empty, the fixed name downloaded_file.  A successful download leaves a
\* file there and names it in its message.
C12_DestinationPrecedence ==
    [][ /\ op = "idle"
        /\ op' = "download_file_via_presigned_url"
        /\ DownloadAnswered(args')
        /\ args'.event.status_code = 200
        => LET dest == Destination(args')
           IN  /\ DOMAIN fs \subseteq DOMAIN fs'
               /\ \A p \in DOMAIN fs' \ {abspath(dest)} :
                      IF p \in DOMAIN fs THEN fs'[p] = fs[p]
                      ELSE fs'[p].kind = "dir"
               /\ ret'[1] = TRUE =>
                      /\ abspath(dest) \in DOMAIN fs'
                      /\ fs'[abspath(dest)].kind = "file"
                      /\ SubSeq(ret'[2], 1, Len(dest) + 2)
                           = <<"Fajl sohranen: ">> \o dest \o <<" (">> ]_vars

\* no output path, a header with filename="realname.txt" and a URL that
\* ends in file.txt: the file is realname.txt and there is no file.txt
C12_Witness ==
    /\ AfterDownload
    /\ raised = ""
    /\ ret[1] = TRUE
    /\ args.output_path = << >>
    /\ DictHas(args.event.headers, "Content-Disposition")
    /\ UrlSegment(args.presigned_url) = <<"file", ".txt">>
    /\ Append(Cwd, <<"realname", ".txt">>) \in DOMAIN fs
    /\ Append(Cwd, <<"file", ".txt">>) \notin DOMAIN fs
    /\ args.event.chunks # << >>
    /\ fs[Append(Cwd, <<"realname", ".txt">>)].data
         = Concat(args.event.chunks, Len(args.event.chunks))

\* the sum of the sizes of the chunks
RECURSIVE BytesReceived(_)
BytesReceived(chunks) ==
    IF chunks = << >> THEN 0
    ELSE Len(chunks[1]) + BytesReceived(Tail(chunks))

\* C13: after a successful download the byte count of the message is the
\* sum of the sizes of the chunks received and the size of the destination
\* file, and the file holds the chunks one after the other in the order of
\* their arrival.
C13_ByteCount ==
    AfterDownload /\ raised = "" /\ ret[1] = TRUE =>
        LET dest == Destination(args)
            chunks == args.event.chunks
            data == fs[abspath(dest)].data
        IN  /\ data = Concat(chunks, Len(chunks))
            /\ Len(data) = BytesReceived(chunks)
            /\ ret[2] = <<"Fajl sohranen: ">> \o dest \o <<" (">>
                          \o FormatThousands(BytesReceived(chunks))
                          \o <<" bytes)">>

\* three chunks, the second one empty: the file holds two bytes and the
\* message says 2
C13_Witness ==
    /\ AfterDownload
    /\ raised = ""
    /\ ret[1] = TRUE
    /\ args.event.chunks = << <<1>>, << >>, <<2>> >>
    /\ fs[abspath(Destination(args))].data = <<1, 2>>
    /\ Contains(ret[2], <<" (", "2", " bytes)">>)

-----------------------------------------------------------------------------
(* Upload, then download *)

\* the object a successful upload with arguments a has written
ObjectUploaded(a) ==
    <<Last(a.presigned_data.url),
      PathTokens(DictGet(a.presigned_data.fields, "key"))>>

UploadSucceeded == AfterUpload /\ raised = "" /\ ret[1] = TRUE
DownloadSucceeded == AfterDownload /\ raised = "" /\ ret[1] = TRUE

-----------------------------------------------------------------------------
(* Properties of main() *)

\* the positions of the log of main() that hold a call of name
CallsOf(name) == {i \in DOMAIN main.calls : main.calls[i].call = name}

\* C15: the connectivity probe makes one list_buckets call and answers
\* true when the call succeeds and false when it fails; the failure is not
\* raised and does not end the construction of the manager: the run goes
\* on to the action, whose first step can be taken.
C15_ProbeIsBestEffort ==
    \A i \in CallsOf("list_buckets") :
        main.calls[i].event # "KeyboardInterrupt" =>
            /\ CallsOf("list_buckets") = {i}
            /\ main.probe = <<main.calls[i].event = "ok">>
            /\ main.uncaught = ""
            /\ main.pc = "ready" =>
                   ENABLED (Generate \/ UploadSign \/ DownloadSign)
            /\ main.pc = "exit" /\ i = Len(main.calls) =>
                   main.ns.action = "upload" /\ main.ns.file = << >>

\* the probe failed, and the upload of the same run was made and
\* succeeded
C15_Witness ==
    /\ main.pc = "exit"
    /\ main.probe = <<FALSE>>
    /\ CallsOf("generate_presigned_post") # {}
    /\ CallsOf("POST") # {}
    /\ main.exit_code = <<0>>

\* main() has ended and no user interrupt was delivered to it
Ended == main.pc = "exit" /\ main.interrupt = ""

\* the command line lacks a flag that the parser requires
RequiredFlagMissing ==
    Omitted \in {main.argv.action, main.argv.bucket, main.argv.key}

\* the failures of a run that the command line classifies
FileFlagMissing == main.ns.action = "upload" /\ main.ns.file = << >>

LocalFileMissing ==
    /\ main.ns.action = "upload" /\ main.ns.file # << >>
    /\ abspath(main.ns.file) \notin DOMAIN fs
    /\ main.result # << >>

SigningFailed ==
    \E i \in CallsOf("generate_presigned_post")
              \cup CallsOf("generate_presigned_url") :
        main.calls[i].event # "ok"

TransferRefused ==
    /\ main.transfer # << >>
    /\ main.transfer[1].exc = ""
    /\ main.transfer[1].status_code
         \notin (IF main.ns.action = "upload" THEN {200, 201, 204} ELSE {200})

\* the action of the command line was carried out
ActionSucceeded ==
    IF main.ns.action = "generate" THEN main.signed # << >>
    ELSE main.result # << >> /\ main.result[1] = TRUE

\* C16 as stated: the exit code is 0 when the action succeeds and 1 for a
\* missing required flag, a missing local file, a signing failure and a
\* transfer answered with a non-success status.
C16_ExitOneForEveryFailure ==
    Ended =>
        /\ RequiredFlagMissing => main.exit_code = <<1>>
        /\ main.ns # << >> =>
              /\ ActionSucceeded => main.exit_code = <<0>>
              /\ FileFlagMissing \/ LocalFileMissing \/ SigningFailed
                 \/ TransferRefused => main.exit_code = <<1>>

\* C16, amended: a command line that the parser rejects (a required flag
\* --action, --bucket or --key left out, a value outside the choices) ends
\* with exit code 2; otherwise the exit code is 0 when the action succeeds
\* and 1 when it does not, in particular for an upload without --file, a
\* missing local file, a signing failure and a transfer answered with a
\* non-success status.
C16_ExitCodes ==
    Ended =>
        /\ RequiredFlagMissing => main.ns = << >>
        /\ IF main.ns = << >> THEN main.exit_code = <<ArgparseExit>>
           ELSE /\ main.exit_code = IF ActionSucceeded THEN <<0>> ELSE <<1>>
                /\ FileFlagMissing \/ LocalFileMissing \/ SigningFailed
                   \/ TransferRefused => main.exit_code = <<1>>

\* an upload that the store refuses with 403 ends with exit code 1
C16_Witness ==
    /\ Ended
    /\ main.ns # << >>
    /\ main.ns.action = "upload"
    /\ TransferRefused
    /\ main.transfer[1].status_code = 403
    /\ main.exit_code = <<1>>

\* C17: a run of main() to which a user interrupt was delivered after the
\* command line was parsed ends with exit code 130, and no exception
\* leaves main() uncaught.
C17_InterruptExits130 ==
    main.pc = "exit" /\ main.interrupt # "" =>
        /\ main.exit_code = <<InterruptExit>>
        /\ main.uncaught = ""

\* the run was given a command line that cannot be carried out: an upload
\* without --file, or no credentials
ConfigurationError ==
    main.ns # << >> /\ (FileFlagMissing \/ ~main.credentials)

\* C18: a run with a configuration error (an upload without --file, or no
\* credentials) ends with exit code 1 and has sent no request to the
\* network, the list_buckets request of the probe included.
C18_ConfigErrorBeforeNetwork ==
    Ended /\ ConfigurationError =>
        /\ main.exit_code = <<1>>
        /\ \A i \in DOMAIN main.calls : ~main.calls[i].net

SignerCallsOfRun ==
    CallsOf("generate_presigned_post") \cup CallsOf("generate_presigned_url")

TransportCallsOfRun == CallsOf("POST") \cup CallsOf("GET")

\* C19: when the signer fails, the signing method returns None and raises
\* nothing; the run makes no second signer call and no transport call and
\* ends with exit code 1.
C19_SignerFailureIsNone ==
    /\ AfterCreate => raised \in {"", "KeyboardInterrupt"}
    /\ op = "create_presigned_get_url"
       /\ args.event \notin {"ok", "KeyboardInterrupt"} =>
          raised = "" /\ ret = << >>
    /\ Ended /\ main.ns # << >> /\ SigningFailed =>
          /\ main.signed = << >>
          /\ Cardinality(SignerCallsOfRun) = 1
          /\ TransportCallsOfRun = {}
          /\ main.exit_code = <<1>>

\* the state after a call of an executor
AfterExecutorCall == AfterUpload \/ AfterDownload

\* C20: no retry.  An executor makes at most one transport call and no
\* signer call; a run of main() makes at most one signer call and at most
\* one transport call, the transport call is the last call of the run, and
\* once it was made the run has ended.
C20_NoRetry ==
    /\ AfterExecutorCall => Len(http) <= 1 /\ signer = << >>
    /\ Cardinality(SignerCallsOfRun) <= 1
    /\ Cardinality(TransportCallsOfRun) <= 1
    /\ \A i \in TransportCallsOfRun :
          /\ i = Len(main.calls)
          /\ main.pc = "exit"
          /\ \A j \in SignerCallsOfRun : j < i

\* the POST of an upload timed out: one signer call, one POST, exit code 1
C20_Witness ==
    /\ main.pc = "exit"
    /\ main.transfer # << >>
    /\ main.transfer[1].exc = "Timeout"
    /\ Cardinality(CallsOf("POST")) = 1
    /\ Cardinality(CallsOf("generate_presigned_post")) = 1
    /\ main.result = <<FALSE, UploadTimeoutMsg>>
    /\ main.exit_code = <<1>>

-----------------------------------------------------------------------------
(* Properties of the order of the steps *)

\* the probe of the manager has finished: list_buckets was called and
\* _test_connection has returned its answer
ProbeFinishedBefore(i) ==
    /\ main.probe # << >>
    /\ \E j \in CallsOf("list_buckets") : j < i

\* C21: in every run the steps occur in the order probe, policy
\* construction, signer, executor: a transport call is made only after a
\* signer call of the same run has returned a signed request, a signer is
\* called only after the probe of the manager has finished, and the signer
\* of an upload is called with the policy that was built from the
\* arguments of the call.
C21_StepOrder ==
    /\ \A i \in TransportCallsOfRun :
          /\ main.signed # << >>
          /\ \E j \in SignerCallsOfRun : j < i /\ main.calls[j].event = "ok"
    /\ \A j \in SignerCallsOfRun : ProbeFinishedBefore(j)
    /\ AfterCreate =>
          /\ Len(signer) = 1
          /\ signer[1].Conditions =
                BuildConditions(args.bucket_name, args.object_name,
                    DefaultInt(args.max_size_mb, DefaultMaxSizeMb),
                    Default(args.content_type, NoneValue),
                    Default(args.acl, DefaultAcl))
          /\ signer[1].Fields =
                BuildFields(args.bucket_name, args.object_name,
                    Default(args.content_type, NoneValue),
                    Default(args.acl, DefaultAcl))

\* a download run: client, probe, signer and GET, in this order
C21_Witness ==
    /\ main.pc = "exit"
    /\ Len(main.calls) = 4
    /\ main.calls[1].call = "boto3.client"
    /\ main.calls[2].call = "list_buckets"
    /\ main.calls[3].call = "generate_presigned_url"
    /\ main.calls[4].call = "GET"
    /\ main.exit_code = <<0>>

-----------------------------------------------------------------------------
(* Properties of the signed request of a run *)

SucceededSignerCalls == {i \in SignerCallsOfRun : main.calls[i].event = "ok"}

\* C22 as stated: every signed request the signer creates in a run is
\* consumed by exactly one executor call, and every executor call of the
\* command line uses a request signed in that same run.
C22_EverySignedRequestConsumed ==
    /\ \A i \in DOMAIN main.executions :
          main.signed = <<main.executions[i].request>>
    /\ Ended /\ main.signed # << >> => Len(main.executions) = 1

\* C22, amended: in the upload and download actions the request the
\* signer returned is handed to exactly one executor call, and an executor
\* call of the command line is given the request that the one signer call
\* of the same run returned; in the generate action the signed upload
\* request is printed and no executor is called.
C22_SignedRequestUse ==
    /\ \A i \in DOMAIN main.executions :
          /\ main.signed = <<main.executions[i].request>>
          /\ Cardinality(SucceededSignerCalls) = 1
    /\ Len(main.executions) <= 1
    /\ Ended /\ main.signed # << >> =>
          Len(main.executions) = IF main.ns.action = "generate" THEN 0 ELSE 1

\* an upload run whose executor was given the request signed for the
\* key and the bucket of the command line
C22_Witness ==
    /\ Ended
    /\ main.ns # << >>
    /\ main.ns.action = "upload"
    /\ Len(main.executions) = 1
    /\ main.executions[1].request.object = main.ns.key
    /\ main.executions[1].request = main.signed[1]
    /\ CallsOf("POST") # {}

-----------------------------------------------------------------------------
(* Properties of the local file of a transfer *)

\* the call of the upload opened its source file: the POST was reached
UploadOpenedSource == AfterUpload /\ http # << >>

\* C23: the file handle the upload opens on its source and the one the
\* download opens on its destination are closed on every way out of the
\* call, a transport exception or a timeout raised while the handle is
\* open included: no call of an executor, from a caller or from main(),
\* ends with a handle still open.
C23_HandlesClosed ==
    /\ AfterExecutorCall => handles = {}
    /\ main.executions # << >> => handles = {}

\* the POST of an upload timed out while the source file was open
C23_Witness ==
    /\ UploadOpenedSource
    /\ args.event.exc = "Timeout"
    /\ ret = <<FALSE, UploadTimeoutMsg>>
    /\ handles = {}

\* the download with inputs a can open its destination in the storage files
DestinationOpens(files, a) ==
    LET dir == dirname(abspath(Destination(a)))
    IN  /\ MakedirsError(files, dir) = ""
        /\ OpenWriteError(Makedirs(files, dir), Destination(a)) = ""

\* C24: the download creates or truncates its destination file before the
\* first chunk is written.  When the stream fails after k chunks were
\* written the call returns a failure and raises nothing, and the
\* destination file is left holding exactly these k chunks: it is neither
\* removed nor given back its earlier content.
C24_PartialFileIsLeft ==
    [][ /\ op = "idle"
        /\ op' = "download_file_via_presigned_url"
        /\ DownloadAnswered(args')
        /\ args'.event.status_code = 200
        /\ args'.event.stream_exc # ""
        /\ DestinationOpens(fs, args')
        => LET dest == abspath(Destination(args'))
               k == args'.event.received
           IN  /\ raised' = ""
               /\ ret'[1] = FALSE
               /\ dest \in DOMAIN fs'
               /\ fs'[dest].kind = "file"
               /\ fs'[dest].data = Body(SubSeq(args'.event.chunks, 1, k)) ]_vars

\* the stream broke after the first of two chunks, towards a path that
\* held an earlier download of four bytes: the file holds the first chunk
C24_Witness ==
    /\ AfterDownload
    /\ DownloadAnswered(args)
    /\ args.event.status_code = 200
    /\ args.event.stream_exc = "ConnectionError"
    /\ args.event.chunks = << <<1, 2>>, <<3>> >>
    /\ args.event.received = 1
    /\ args.output_path = <<".", "/", "downloaded", ".txt">>
    /\ ret[1] = FALSE
    /\ fs[Append(Cwd, <<"downloaded", ".txt">>)].data = <<1, 2>>

-----------------------------------------------------------------------------
(* Properties of the form of the upload *)

\* C25: the form the upload submits holds the entries of the fields of the
\* signed request, with the same names and values in the same order, none
\* added and none removed, and one file part, named file, that carries the
\* bytes of the local file and the resolved content type; the mapping of
\* the caller is the same after the call as before.
C25_FormIsSignedFieldsPlusFile ==
    AfterUpload =>
        /\ args.after = args.presigned_data
        /\ \A i \in DOMAIN http :
              /\ http[i].data = args.presigned_data.fields
              /\ Len(http[i].files) = 1
              /\ http[i].files[1][1] = "file"
              /\ http[i].files[1][2].content = fs[abspath(args.file_path)].data
              /\ http[i].files[1][2].content_type =
                    FinalContentType(Default(args.content_type, NoneValue),
                                     args.file_path)
              /\ ~DictHas(http[i].data, "file")

\* the upload of local.txt with the request signed for a JPEG: the five
\* signed fields and the three bytes of the file
C25_Witness ==
    /\ AfterUpload
    /\ Len(http) = 1
    /\ args.presigned_data = SignedData
    /\ http[1].data = SignedData.fields
    /\ Len(http[1].data) > 2
    /\ http[1].files[1][2].content = <<1, 2, 3>>
    /\ ret[1] = TRUE

\* C26: the content type of the file part is the content_type of the
\* caller when one is given (not None, not empty); otherwise the type
\* inferred from the extension of the file name; otherwise, no type being
\* inferred, application/octet-stream.  It is never empty.
C26_ContentTypeResolution ==
    AfterUpload =>
        \A i \in DOMAIN http :
            LET ct == http[i].files[1][2].content_type
                inferred == guess_type(args.file_path)
            IN  /\ ct \notin {"", NoneValue, Omitted}
                /\ IF args.content_type \notin {"", NoneValue, Omitted}
                   THEN ct = args.content_type
                   ELSE IF inferred # NoneValue THEN ct = inferred
                   ELSE ct = "application/octet-stream"

\* local.txt posted as image/jpeg on the caller's word, although its
\* extension says text/plain
C26_Witness ==
    /\ AfterUpload
    /\ Len(http) = 1
    /\ args.file_path = <<"local", ".txt">>
    /\ args.content_type = "image/jpeg"
    /\ guess_type(args.file_path) = "text/plain"
    /\ http[1].files[1][2].content_type = "image/jpeg"

-----------------------------------------------------------------------------
(* Properties of the inputs of the policy *)

\* C27: the policy is built from validated inputs only: whenever a run of
\* main() reaches create_presigned_post_url, --max-size is at least 1 and
\* the bucket and the key are not empty, so that the size range handed to
\* the signer has its maximum at or above its minimum, 1.
C27_PolicyInputsValidated ==
    \A i \in CallsOf("generate_presigned_post") :
        LET ns == main.ns
            conditions == BuildConditions(ns.bucket, ns.key, ns.max_size,
                                          ns.content_type, ns.acl)
        IN  /\ ns.max_size >= 1
            /\ ns.bucket # ""
            /\ ns.key # ""
            /\ \A j \in RangeIndexes(conditions) :
                  conditions[j].lo = 1 /\ conditions[j].hi >= conditions[j].lo

-----------------------------------------------------------------------------
(* Properties of the size of the uploaded file *)

\* the local file path can be opened for reading
Readable(path) ==
    /\ abspath(path) \in DOMAIN fs
    /\ fs[abspath(path)].kind = "file"
    /\ fs[abspath(path)].perm

\* the file of the upload run is larger than the maximum of the policy
\* that was signed for it
ExceedsSignedMaximum ==
    /\ main.ns # << >>
    /\ main.ns.action = "upload"
    /\ main.ns.file # << >>
    /\ Readable(main.ns.file)
    /\ Len(fs[abspath(main.ns.file)].data) > main.ns.max_size * 1024 * 1024

\* C28: the upload does not enforce the size limit of the policy: for a
\* local file that can be read, of any size, one larger than the signed
\* maximum included, the POST is issued exactly once, and the call succeeds
\* exactly when the store answers 200, 201 or 204.
C28_NoLocalSizeLimit ==
    /\ AfterUpload /\ Readable(args.file_path)
       /\ {"url", "fields"} \subseteq DOMAIN args.presigned_data =>
          /\ Len(http) = 1
          /\ raised = "" =>
                ret[1] = (/\ args.event.exc = ""
                          /\ args.event.status_code \in {200, 201, 204})
    /\ \A i \in DOMAIN main.executions :
          main.ns.action = "upload" /\ Readable(main.ns.file) =>
             /\ Cardinality(CallsOf("POST")) = 1
             /\ main.result # << >> =>
                   main.result[1] = (/\ main.transfer[1].exc = ""
                                     /\ main.transfer[1].status_code
                                          \in {200, 201, 204})

\* --max-size 0 and a file of three bytes: the POST is made, the store
\* refuses it with 403 and the run ends with exit code 1
C28_Witness ==
    /\ Ended
    /\ ExceedsSignedMaximum
    /\ main.ns.max_size = 0
    /\ Cardinality(CallsOf("POST")) = 1
    /\ main.transfer[1].status_code = 403
    /\ main.result[1] = FALSE
    /\ main.exit_code = <<1>>

-----------------------------------------------------------------------------
(* Properties of the download and upload actions of the command line *)

\* the executor calls of the run that download
DownloadExecutions ==
    {i \in DOMAIN main.executions :
        main.executions[i].method = "download_file_via_presigned_url"}

\* C29: in the download action of the command line the executor is always
\* called with an output path that is not empty: the value of --output
\* when it is given, otherwise the last segment of the key, otherwise the
\* fixed name downloaded_file.  The Content-Disposition header and the URL
\* therefore do not choose the destination of a command line run: a
\* successful download is saved at that output path.
C29_CliAlwaysNamesOutput ==
    \A i \in DownloadExecutions :
        LET path == main.executions[i].path
            key == PathTokens(main.ns.key)
            slashes == {j \in DOMAIN key : key[j] = "/"}
            segment == IF slashes = {} THEN key
                       ELSE SubSeq(key,
                              (CHOOSE j \in slashes :
                                  \A k \in slashes : j >= k) + 1,
                              Len(key))
        IN  /\ path # << >>
            /\ path = IF main.ns.output # << >> THEN main.ns.output
                      ELSE IF segment # << >> THEN segment
                      ELSE <<"downloaded_file">>
            /\ main.result # << >> /\ main.result[1] = TRUE =>
                  /\ abspath(path) \in DOMAIN fs
                  /\ SubSeq(main.result[2], 1, Len(path) + 2)
                       = <<"Fajl sohranen: ">> \o path \o <<" (">>

\* no --output, a key that ends with "/" and an answer whose header names
\* realname.txt: the file is saved as downloaded_file
C29_Witness ==
    /\ Ended
    /\ DownloadExecutions # {}
    /\ main.ns.output = << >>
    /\ main.ns.key = "dir/"
    /\ main.transfer # << >>
    /\ DictHas(main.transfer[1].headers, "Content-Disposition")
    /\ main.executions[1].path = <<"downloaded_file">>
    /\ main.result[1] = TRUE
    /\ Append(Cwd, <<"downloaded_file">>) \in DOMAIN fs
    /\ Append(Cwd, <<"realname", ".txt">>) \notin DOMAIN fs

\* the run is an upload whose --file names a file that is not there
MissingFileRun ==
    /\ main.ns # << >>
    /\ main.ns.action = "upload"
    /\ main.ns.file # << >>
    /\ ~exists(fs, main.ns.file)

\* C30: in the upload action with a --file that names a missing file, the
\* failure is found inside the upload executor only: once the manager is
\* constructed, the run that ends without an interrupt has made the
\* list_buckets call of the probe and one signer call, makes no POST and
\* ends with exit code 1; when the signer returned a request, the executor
\* was called with it and answered that the file was not found.
C30_MissingFileFoundByExecutor ==
    Ended /\ MissingFileRun /\ main.probe # << >> =>
        /\ Cardinality(CallsOf("list_buckets")) = 1
        /\ Cardinality(CallsOf("generate_presigned_post")) = 1
        /\ \A i \in CallsOf("list_buckets") :
              \A j \in CallsOf("generate_presigned_post") : i < j
        /\ CallsOf("POST") = {}
        /\ main.exit_code = <<1>>
        /\ main.signed # << >> =>
              /\ Len(main.executions) = 1
              /\ main.executions[1].method = "upload_file_via_presigned_post"
              /\ main.result = <<FALSE, FileNotFoundMsg(main.ns.file)>>

\* --file /nonexistent/path/file.txt: probe, signature, the executor
\* answers that the file was not found, exit code 1
C30_Witness ==
    /\ Ended
    /\ MissingFileRun
    /\ main.probe = <<TRUE>>
    /\ main.signed # << >>
    /\ Len(main.calls) = 3
    /\ main.calls[3].call = "generate_presigned_post"
    /\ Len(main.executions) = 1
    /\ main.result = <<FALSE, FileNotFoundMsg(main.ns.file)>>
    /\ main.exit_code = <<1>>

====
